---- MODULE Spec2Model ----
(***************************************************************************)
(* xsukax RSS to Mastodon: the fetch / dedup / post pipeline               *)
(* (execute_feed_run, run_job), its SQLite tables and the admin routes     *)
(* that change them, as a state machine.                                   *)
(*                                                                         *)
(* Abstractions.  A feed item is its guid (a positive integer) plus `pos`, *)
(* its place in the list parse_feed returned (history only: the code never *)
(* reads it).  A detail line is a record naming its kind and the ids the   *)
(* f-string interpolates.  last_fetched_at is a per-feed update counter    *)
(* (0 is NULL).  Threads: 0 is the APScheduler worker running the          *)
(* 'feed_run' job, 1 is a thread started by run_now.                        *)
(***************************************************************************)
EXTENDS Integers, Sequences, FiniteSets, TLC

(* ------------------------------------------------------------------ *)
(* Program constants                                                  *)
(* ------------------------------------------------------------------ *)

POST_LIMIT == 5

RSS_INTERVAL_MINS == 30

(* ------------------------------------------------------------------ *)
(* Bounds of the model                                                *)
(* ------------------------------------------------------------------ *)

\* item guids are 1..MaxGuid; a larger guid is a newer item
MaxGuid == 7

\* publish calls that fail (API error or exception) in one pass
MaxFaults == 1

\* passes started in one behaviour of the overlapping specification
MaxPasses == 2

\* admin requests (toggle, delete, disconnect, clear) in one behaviour
MaxAdmin == 1

\* start_scheduler calls
MaxStarts == 2

\* times the wall clock is set back
MaxSetbacks == 1

\* CSRF tokens made
MaxTokens == 2

\* OAuth states made
MaxStates == 1

\* admin requests that wait for the write lock at the same time
MaxWaiting == 1

\* the rows of feeds and of mastodon_accounts, by id
FeedIds == {1, 2}

AccountIds == {1, 2}

Guids == 1..MaxGuid

\* 0: the scheduler's worker (the 'feed_run' job); 1: a thread run_now started
Threads == {0, 1}

\* a mutant: run_job ignores its argument
TriggerAlwaysAuto(p) == "auto"

\* the trigger source a thread passes to run_job
TriggerOf(p) == IF p = 0 THEN "auto" ELSE "manual"

(* ------------------------------------------------------------------ *)
(* Sequence helpers                                                   *)
(* ------------------------------------------------------------------ *)

\* list(reversed(s))
Reversed(s) == [i \in 1..Len(s) |-> s[Len(s) - i + 1]]

\* s[:n]
Take(s, n) == IF Len(s) <= n THEN s ELSE SubSeq(s, 1, n)

\* max(a, b)
Max(a, b) == IF a >= b THEN a ELSE b

\* the elements of a finite set of integers, ascending (ORDER BY id)
RECURSIVE Ascending(_)
Ascending(S) ==
    IF S = {} THEN <<>>
    ELSE LET m == CHOOSE x \in S : \A y \in S : x <= y
         IN  <<m>> \o Ascending(S \ {m})

(* ------------------------------------------------------------------ *)
(* The tables                                                         *)
(* ------------------------------------------------------------------ *)

VARIABLES
    feeds,          \* feeds: id -> [present, active, last_status, last_fetched_at]
    accounts,       \* mastodon_accounts: id -> [present, access_token]
    feed_accounts,  \* feed_accounts: set of <<feed_id, account_id>>
    posted_items,   \* posted_items: rows [feed_id, account_id, item_guid], by rowid
    run_log,        \* run_log: rows, by rowid
    run,            \* per thread: position and locals of run_job / execute_feed_run
    acked,          \* history: triple -> publish calls answered with a remote id
    passes,         \* history: passes started
    admin,          \* history: admin requests served
    sched,          \* the BackgroundScheduler, the clock, and what next_run_info said
    toot,           \* a format_toot call: its arguments and the text it returned
    web,            \* the browser sessions, the pending OAuth states, and the
                    \* requests that are between two of their steps
    behind          \* the passes whose connection reads from a snapshot that
                    \* is older than the last commit to the database

vars == <<feeds, accounts, feed_accounts, posted_items, run_log, run, acked,
          passes, admin, sched, toot, web, behind>>

Triples == FeedIds \X AccountIds \X Guids

\* a mutant: the lookup leaves out the account
HasPostedAnyAccount(tbl, f, a, g) ==
    \E i \in DOMAIN tbl : tbl[i].feed_id = f /\ tbl[i].item_guid = g

\* SELECT 1 FROM posted_items WHERE feed_id=? AND account_id=? AND item_guid=?
HasPosted(tbl, f, a, g) ==
    \E i \in DOMAIN tbl :
        tbl[i].feed_id = f /\ tbl[i].account_id = a /\ tbl[i].item_guid = g

\* PRAGMA foreign_keys=ON: both parents of a posted_items row must exist
ForeignKeysOk(f, a) == feeds[f].present /\ accounts[a].present

\* a mutant: posted_items without its UNIQUE(feed_id, account_id, item_guid)
InsertAlways(tbl, f, a, g) ==
    IF ~ForeignKeysOk(f, a)
    THEN [rows |-> tbl, raised |-> TRUE]
    ELSE [rows |-> Append(tbl, [feed_id |-> f, account_id |-> a, item_guid |-> g]),
          raised |-> FALSE]

\* a mutant: foreign keys are not enforced on the pass's connection
InsertNoForeignKeys(tbl, f, a, g) ==
    IF HasPosted(tbl, f, a, g)
    THEN [rows |-> tbl, raised |-> FALSE]
    ELSE [rows |-> Append(tbl, [feed_id |-> f, account_id |-> a, item_guid |-> g]),
          raised |-> FALSE]

\* a mutant: a plain INSERT, which raises IntegrityError on a UNIQUE conflict
InsertOrRaise(tbl, f, a, g) ==
    IF ~ForeignKeysOk(f, a) \/ HasPosted(tbl, f, a, g)
    THEN [rows |-> tbl, raised |-> TRUE]
    ELSE [rows |-> Append(tbl, [feed_id |-> f, account_id |-> a, item_guid |-> g]),
          raised |-> FALSE]

\* INSERT OR IGNORE INTO posted_items (feed_id,account_id,item_guid) VALUES(?,?,?)
\* A row that conflicts with UNIQUE(feed_id, account_id, item_guid) is skipped
\* silently; a missing parent row is a foreign-key error, which OR IGNORE does
\* not cover, so the statement raises.
InsertOrIgnore(tbl, f, a, g) ==
    IF HasPosted(tbl, f, a, g)
    THEN [rows |-> tbl, raised |-> FALSE]
    ELSE IF ~ForeignKeysOk(f, a)
    THEN [rows |-> tbl, raised |-> TRUE]
    ELSE [rows |-> Append(tbl, [feed_id |-> f, account_id |-> a, item_guid |-> g]),
          raised |-> FALSE]

\* a mutant: the active flag is not consulted
ActiveFeedsAll == Ascending({f \in FeedIds : feeds[f].present})

\* SELECT * FROM feeds WHERE active=1 ORDER BY id
ActiveFeeds == Ascending({f \in FeedIds : feeds[f].present /\ feeds[f].active})

\* a mutant: the credential filter (access_token != '') is missing
LinkedAccountsAnyToken(db, f) ==
    Ascending({a \in AccountIds :
                  db.accounts[a].present /\ <<f, a>> \in db.feed_accounts})

\* a mutant: the join on feed_accounts is missing
LinkedAccountsAnyFeed(db, f) ==
    Ascending({a \in AccountIds :
                  db.accounts[a].present /\ db.accounts[a].access_token # ""})

\* SELECT ma.* FROM mastodon_accounts ma JOIN feed_accounts fa
\*   ON fa.account_id = ma.id WHERE fa.feed_id = ? AND ma.access_token != ''
\* (no ORDER BY: SQLite walks the (feed_id, account_id) primary key), run
\* on the tables db that the connection sees
LinkedAccounts(db, f) ==
    Ascending({a \in AccountIds :
                  /\ db.accounts[a].present
                  /\ <<f, a>> \in db.feed_accounts
                  /\ db.accounts[a].access_token # ""})

(* ------------------------------------------------------------------ *)
(* parse_feed                                                         *)
(* ------------------------------------------------------------------ *)

\* A fetched document: ok is FALSE when feedparser raised; entries are the
\* parsed entries, each [id, link] with 0 for an absent or empty attribute.
RECURSIVE ParseEntries(_, _)
ParseEntries(entries, items) ==
    IF entries = <<>> THEN items
    ELSE LET e    == Head(entries)
             guid == IF e.id # 0 THEN e.id ELSE e.link
         IN  ParseEntries(Tail(entries),
                 IF guid # 0
                 THEN Append(items, [guid |-> guid, pos |-> Len(items) + 1])
                 ELSE items)

parse_feed(doc) == IF ~doc.ok THEN <<>> ELSE ParseEntries(doc.entries, <<>>)

\* the documents a fetch may return
RaiseDoc == [ok |-> FALSE, entries |-> <<>>]

OkDoc(entries) == [ok |-> TRUE, entries |-> entries]

\* the feed's native order: newest (largest guid) first
Window(lo, hi) == [i \in 1..(hi - lo + 1) |-> [id |-> hi - i + 1, link |-> hi - i + 1]]

WindowDocs == {OkDoc(Window(1, hi)) : hi \in {3, MaxGuid - 1, MaxGuid}}

\* entries with and without an id or a link, repeated guids included
ShortEntries == {[id |-> 1, link |-> 2], [id |-> 0, link |-> 1],
                 [id |-> 2, link |-> 0], [id |-> 0, link |-> 0]}

ShortDocs == {OkDoc(<<>>)}
                 \cup {OkDoc(<<e>>) : e \in ShortEntries}
                 \cup {OkDoc(<<e1, e2>>) : e1 \in ShortEntries, e2 \in ShortEntries}

(* ------------------------------------------------------------------ *)
(* execute_feed_run and run_job                                       *)
(* ------------------------------------------------------------------ *)

Line(kind, f, a, g) == [kind |-> kind, feed |-> f, acc |-> a, guid |-> g]

\* the tables a pass reads after its start, as a connection sees them
Database ==
    [accounts |-> accounts, feed_accounts |-> feed_accounts,
     posted_items |-> posted_items]

\* a connection that has no read snapshot
NoSnap == [accounts |-> <<>>, feed_accounts |-> {}, posted_items |-> <<>>]

\* a thread that is not running run_job
IdleRun ==
    [pc |-> "idle", snapshot |-> <<>>, feedq |-> <<>>, feed |-> 0,
     accq |-> <<>>, acc |-> 0,
     items |-> <<>>, postq |-> <<>>, resp |-> "none",
     \* the comprehension at 338-343: items looked up so far, those not found
     scan |-> 0, unseen |-> <<>>,
     posted |-> 0, skipped |-> 0, errors |-> 0, lines |-> <<>>,
     \* the connection of the pass (sqlite3.connect with the default
     \* isolation_level: a BEGIN is sent before an INSERT or UPDATE, and only
     \* conn.commit() or conn.close() ends the transaction).  txn is "none"
     \* outside a transaction, "begun" after a BEGIN whose statement got no
     \* lock, "read" once a SELECT inside the transaction has taken its
     \* snapshot (snap), "write" while the transaction holds the write lock
     txn |-> "none", snap |-> NoSnap,
     \* history of this pass
     calls |-> <<>>, pairs |-> <<>>, fetchlog |-> <<>>, fresh |-> {},
     absent |-> {},
     sleeps |-> 0, faults |-> 0]

\* the passes whose connection holds the database's write lock: an INSERT
\* that failed on a foreign key (360-363) has begun a transaction which the
\* handler at 370-372 neither commits nor rolls back
Holders == {q \in Threads : run[q].txn = "write"}

\* a write by thread p's connection meets the lock of another connection and
\* raises sqlite3.OperationalError (database is locked) once the busy
\* timeout of 5 s is over
Locked(p) == Holders \ {p} # {}

\* a write by thread p's connection raises sqlite3.OperationalError
\* (database is locked): another connection holds the write lock, or p's
\* transaction reads from a snapshot that a later commit has left behind
\* (WAL mode, line 128: the write is refused at once)
Refused(p) == Locked(p) \/ (run[p].txn = "read" /\ p \in behind)

\* what thread p's connection reads: its snapshot inside a transaction that
\* has read before, the database otherwise
View(p) == IF run[p].txn = "read" THEN run[p].snap ELSE Database

\* a SELECT of the pass: the first one after a BEGIN takes the snapshot
Pinned(r) ==
    IF r.txn = "begun" THEN [r EXCEPT !.txn = "read", !.snap = Database] ELSE r

\* a statement of the pass that raised sqlite3.OperationalError: the BEGIN
\* that preceded it stays open
Begun(txn) == IF txn = "none" THEN "begun" ELSE txn

\* finally: conn.close() (376-377) when execute_feed_run returns or raises:
\* an open transaction is rolled back
Closed(r) ==
    IF r.pc \in {"log", "raised"}
    THEN [r EXCEPT !.txn = "none", !.snap = NoSnap]
    ELSE r

\* The snapshots left behind after a step of thread p: a commit that wrote
\* leaves every other snapshot behind; a snapshot ends with its transaction.
Wal(p, wrote) ==
    behind' = {q \in Threads :
                 /\ run[q].txn = "read"
                 /\ run'[q].txn = "read"
                 /\ q \in behind \/ (wrote /\ q # p)}

\* the same after the commit of a request, on a connection of its own
Committed(wrote) ==
    behind' = behind \cup
                 (IF wrote THEN {q \in Threads : run[q].txn = "read"} ELSE {})

\* a mutant: no lookup in posted_items
UnseenAll(tbl, items, f, a) == items

\* [i for i in items if not SELECT 1 FROM posted_items ...] on the table
\* tbl that the connection sees at this moment
Unseen(tbl, items, f, a) ==
    SelectSeq(items, LAMBDA i : ~HasPosted(tbl, f, a, i.guid))

\* a mutant: no cap
ToPostAll(unseen) == Reversed(unseen)

\* a mutant: newest first (the reversal is missing)
ToPostNewestFirst(unseen) == Take(unseen, POST_LIMIT)

\* a mutant: an off-by-one cap
ToPostOneMore(unseen) == Take(Reversed(unseen), POST_LIMIT + 1)

\* unseen = list(reversed(unseen)); to_post = unseen[:POST_LIMIT]
ToPost(unseen) == Take(Reversed(unseen), POST_LIMIT)

\* a mutant: the excess is not clamped at 0
SkippedNoClamp(unseen) == Len(unseen) - POST_LIMIT

\* skipped += max(0, len(unseen) - POST_LIMIT)
SkippedDelta(unseen) == Max(0, Len(unseen) - POST_LIMIT)

\* where the loops of execute_feed_run continue once an account is done
AfterAccount(accq, feedq) ==
    IF accq # <<>> THEN "acc" ELSE IF feedq # <<>> THEN "feed" ELSE "log"

\* a mutant: the item loop ends once an item has been handled
AfterItemBreak(postq, accq, feedq) == AfterAccount(accq, feedq)

\* for item in to_post (line 349), after an item has been handled: the next
\* item, or on to the next account
AfterItem(postq, accq, feedq) ==
    IF postq # <<>> THEN "post" ELSE AfterAccount(accq, feedq)

\* where the feed loop continues once a feed is done
AfterFeed(feedq) == IF feedq # <<>> THEN "feed" ELSE "log"

\* publish calls of a pass that did not return a remote id
Failed(calls) == {i \in DOMAIN calls : calls[i].resp # "id"}

(* ------------------------------------------------------------------ *)
(* The scheduler                                                      *)
(* ------------------------------------------------------------------ *)

\* seconds between two fires: IntervalTrigger(minutes=RSS_INTERVAL_MINS)
IntervalSecs == RSS_INTERVAL_MINS * 60

\* scheduler.get_job(id): the place of the job in the job store, 0 for None
JobOf(jobs, id) ==
    IF \E i \in DOMAIN jobs : jobs[i].id = id
    THEN CHOOSE i \in DOMAIN jobs :
            jobs[i].id = id /\ \A j \in DOMAIN jobs : jobs[j].id = id => i <= j
    ELSE 0

\* a mutant: add_job without replace_existing keeps the earlier job
AddJobAppend(jobs, job) == Append(jobs, job)

\* scheduler.add_job(..., id=..., replace_existing=True)
AddJob(jobs, job) ==
    IF JobOf(jobs, job.id) # 0
    THEN [jobs EXCEPT ![JobOf(jobs, job.id)] = job]
    ELSE Append(jobs, job)

\* before start_scheduler: no job, not running; the clock reads 0
NoInfo == [display |-> "unasked", ts |-> 0, secs |-> 0, pct |-> 0]

StoppedScheduler ==
    [running |-> FALSE, jobs |-> <<>>, now |-> 0, info |-> NoInfo,
     \* history
     starts |-> 0, setbacks |-> 0]

\* start_scheduler (lines 408-414): the job's first fire is one interval away
StartedAt(s) ==
    [s EXCEPT !.jobs = AddJob(@, [id |-> "feed_run",
                                  next_run_time |-> s.now + IntervalSecs]),
              !.running = TRUE,
              !.info = NoInfo]

\* the job fires: the clock has reached next_run_time, the next fire is one
\* interval after this one
Fire(s) ==
    LET i == JobOf(s.jobs, "feed_run")
    IN  [s EXCEPT !.now = Max(s.now, s.jobs[i].next_run_time),
                  !.jobs[i].next_run_time = @ + IntervalSecs,
                  !.info = NoInfo]

\* a mutant: a manual run is made by firing the job early
AfterTriggerFire(p, s) == Fire(s)

\* what starting a pass does to the schedule: the timer's fire moves
\* next_run_time on; run_now (lines 1352-1357) only starts a thread
AfterTrigger(p, s) == IF p = 0 THEN Fire(s) ELSE s

\* int(x) of a quotient n/d, d > 0: Python truncates toward zero
Trunc(n, d) == IF n >= 0 THEN n \div d ELSE -((-n) \div d)

Min(a, b) == IF a <= b THEN a ELSE b

\* a mutant: the fallback reports zero progress
NoJobInfoZero == [display |-> "dash", ts |-> 0, secs |-> 0, pct |-> 0]

\* the value of the last return statement of next_run_info (line 429)
NoJobInfo == [display |-> "dash", ts |-> 0, secs |-> 0, pct |-> 100]

\* Line 425 works in binary floating point.  At these whole seconds (all
\* there are up to three intervals) secs / 1800 * 100 is an integer in exact
\* arithmetic and comes out a hair above it in doubles (FloatAbove) or below
\* it (FloatBelow), so that int() lands one off the exact percentage.
FloatAbove == {990, 1008}

FloatBelow == {2034, 2052, 2070, 2088, 3618, 3654, 3690, 3726, 4068, 4104,
               4140, 4176, 4518, 4554, 4590}

\* line 425: min(100, int(100 - secs / (RSS_INTERVAL_MINS * 60) * 100))
PctOf(secs) ==
    Min(100, Trunc(100 * IntervalSecs - secs * 100, IntervalSecs)
             - (IF secs \in FloatAbove THEN 1 ELSE 0)
             + (IF secs \in FloatBelow THEN 1 ELSE 0))

\* lines 422-426: the job's next fire time, the whole seconds left, the
\* percentage of the interval gone
JobInfo(s, i) ==
    [display |-> "time", ts |-> s.jobs[i].next_run_time,
     secs |-> Max(0, s.jobs[i].next_run_time - s.now),
     pct |-> PctOf(Max(0, s.jobs[i].next_run_time - s.now))]

\* next_run_info (lines 417-429), on the clock in whole seconds
next_run_info(s) ==
    IF JobOf(s.jobs, "feed_run") # 0
    THEN JobInfo(s, JobOf(s.jobs, "feed_run"))
    ELSE NoJobInfo

\* start_scheduler (lines 408-414)
start_scheduler ==
    /\ sched.starts < MaxStarts
    /\ sched' = [StartedAt(sched) EXCEPT !.starts = @ + 1]
    /\ UNCHANGED <<feeds, accounts, feed_accounts, posted_items, run_log, run,
                   acked, passes, admin, toot, web, behind>>

\* a page handler asks for the countdown (lines 417-429)
Query ==
    /\ sched' = [sched EXCEPT !.info = next_run_info(sched)]
    /\ UNCHANGED <<feeds, accounts, feed_accounts, posted_items, run_log, run,
                   acked, passes, admin, toot, web, behind>>

\* datetime.now moves on by d seconds; the job fires once its time is reached
Elapse(d) ==
    /\ IF JobOf(sched.jobs, "feed_run") # 0
       THEN sched.now < sched.jobs[JobOf(sched.jobs, "feed_run")].next_run_time
       ELSE sched.now < IntervalSecs
    /\ sched' = [sched EXCEPT !.now = @ + d, !.info = NoInfo]
    /\ UNCHANGED <<feeds, accounts, feed_accounts, posted_items, run_log, run,
                   acked, passes, admin, toot, web, behind>>

\* the wall clock is set back by d seconds (an operator or a time service)
ClockSetBack(d) ==
    /\ sched.setbacks < MaxSetbacks
    /\ sched.now >= d
    /\ sched' = [sched EXCEPT !.now = @ - d, !.info = NoInfo, !.setbacks = @ + 1]
    /\ UNCHANGED <<feeds, accounts, feed_accounts, posted_items, run_log, run,
                   acked, passes, admin, toot, web, behind>>

\* run_job -> execute_feed_run, lines 302-310: the active feeds are read once
Started(p) ==
    /\ run[p].pc = "idle"
    /\ LET fs == ActiveFeeds
       IN  run' = [run EXCEPT ![p] =
                     IF fs = <<>>
                     THEN [IdleRun EXCEPT !.pc = "log",
                                          !.lines = <<Line("nofeeds", 0, 0, 0)>>]
                     ELSE [IdleRun EXCEPT !.pc = "feed", !.feedq = fs,
                                          !.snapshot = fs]]
    /\ p = 0 => JobOf(sched.jobs, "feed_run") # 0 /\ sched.running
    /\ UNCHANGED <<feeds, accounts, feed_accounts, posted_items, run_log, acked, admin,
                   toot, web, behind>>

\* a pass starts, one of at most limit passes
StartRun(p, limit) ==
    /\ passes < limit
    /\ Started(p)
    /\ passes' = passes + 1
    /\ sched' = AfterTrigger(p, sched)

\* a pass starts, whatever the number of passes before it: the interval
\* trigger (409-411) fires the job again and again.  Neither the passes nor
\* the times of the fires are counted
StartRunAgain(p) ==
    /\ Started(p)
    /\ UNCHANGED <<passes, sched>>

\* a mutant: the feed table is read again before every feed
NextFeedsRequery(feedq) ==
    Ascending({f \in FeedIds : feeds[f].present /\ feeds[f].active /\ f > Head(feedq)})

\* for feed in feeds (line 312): the loop walks the list read at line 304
NextFeeds(feedq) == Tail(feedq)

\* lines 312-322: the next feed and the accounts it is wired to
LoadAccounts(p) ==
    /\ run[p].pc = "feed"
    /\ LET f    == Head(run[p].feedq)
           rest == NextFeeds(run[p].feedq)
           accs == LinkedAccounts(View(p), f)
       IN  run' = [run EXCEPT ![p] =
                     IF accs = <<>>
                     THEN Closed(Pinned([@ EXCEPT !.feedq = rest,
                                    !.feed  = f,
                                    !.lines = Append(@, Line("noacc", f, 0, 0)),
                                    !.pc    = AfterFeed(rest)]))
                     ELSE Pinned([@ EXCEPT !.feedq = rest,
                                    !.feed  = f,
                                    !.accq  = accs,
                                    !.pc    = "fetch"])]
    /\ Wal(p, FALSE)
    /\ UNCHANGED <<feeds, accounts, feed_accounts, posted_items, run_log, acked,
                   passes, admin,
                   sched, toot, web>>

\* a mutant: a failed fetch is reported by its line only
FetchErrorsNone(accs) == 0

\* a mutant: a failed fetch counts once per linked account
FetchErrorsPerAccount(accs) == Len(accs)

\* errors += 1 (line 332)
FetchErrors(accs) == 1

\* a mutant: a failed fetch ends the feed loop
AfterFailedFetchBreak(feedq) == "log"

\* continue (line 334)
AfterFailedFetch(feedq) == AfterFeed(feedq)

\* a mutant: the status written does not depend on the fetch
FetchStatusAlwaysOk(items) == "ok"

\* "ok" if items else "error" (line 327)
FetchStatus(items) == IF items # <<>> THEN "ok" ELSE "error"

\* a mutant: the UPDATE has no WHERE clause
UpdatedFeedsAll(f) == FeedIds

\* UPDATE feeds SET ... WHERE id=? (lines 325-328): the rows written
UpdatedFeeds(f) == {f}

\* last_fetched_at=datetime('now') (line 326): the time of the write, later
\* than the one it replaces.  last # 0: times from last on are not told apart
Stamped(t, last) == IF last = 0 \/ t < last THEN t + 1 ELSE last

\* lines 324-334: fetch, write last_fetched_at / last_status, commit.  The
\* UPDATE is outside every try of execute_feed_run: when the database is
\* refused it raises and the pass ends in run_job's handler.  The commit also
\* ends a transaction the connection had open.
FetchUpTo(p, docs, last) ==
    /\ run[p].pc = "fetch"
    /\ \E doc \in docs[run[p].feed] :
        LET f     == run[p].feed
            items == parse_feed(doc)
        IN  /\ feeds' = [g \in DOMAIN feeds |->
                            IF g \in UpdatedFeeds(f) /\ feeds[g].present /\ ~Refused(p)
                            THEN [feeds[g] EXCEPT
                                    !.last_fetched_at = Stamped(@, last),
                                    !.last_status = FetchStatus(items)]
                            ELSE feeds[g]]
            /\ run' = [run EXCEPT ![p] =
                         IF Refused(p)
                         THEN Closed([@ EXCEPT !.pc = "raised", !.faults = @ + 1])
                         ELSE IF items = <<>>
                         THEN Closed([@ EXCEPT
                                 !.txn      = "none",
                                 !.snap     = NoSnap,
                                 !.items    = items,
                                 !.errors   = @ + FetchErrors(run[p].accq),
                                 !.faults   = @ + 1,
                                 !.lines    = Append(@, Line("fetchfail", f, 0, 0)),
                                 !.fetchlog = Append(@, [feed |-> f, ok |-> FALSE]),
                                 !.accq     = <<>>,
                                 !.pc       = AfterFailedFetch(run[p].feedq)])
                         ELSE [@ EXCEPT
                                 !.txn      = "none",
                                 !.snap     = NoSnap,
                                 !.items    = items,
                                 !.fetchlog = Append(@, [feed |-> f, ok |-> TRUE]),
                                 !.pc       = "acc"]]
            /\ Wal(p, ~Refused(p) /\ \E g \in UpdatedFeeds(f) : feeds[g].present)
    /\ UNCHANGED <<accounts, feed_accounts, posted_items, run_log, acked, passes, admin,
                   sched, toot, web>>

\* the step with every time of a write told apart
Fetch(p, docs) == FetchUpTo(p, docs, 0)

\* lines 336-347, one lookup at a time: the next item of the feed is looked
\* up in the ledger for the next account (338-342; outside a transaction
\* every SELECT is a read of its own, so the ledger may change between two
\* of them; inside one they all read the snapshot); after the last item the
\* list is reversed and capped (344-346)
Filter(p) ==
    /\ run[p].pc = "acc"
    /\ LET f      == run[p].feed
           a      == Head(run[p].accq)
           rest   == Tail(run[p].accq)
           items  == run[p].items
           i      == run[p].scan + 1
           unseen == run[p].unseen \o Unseen(View(p).posted_items, <<items[i]>>, f, a)
           \* history: the positions for which the lookup found no row ...
           seen   == View(p).posted_items
           fresh  == run[p].fresh \cup
                        (IF \A k \in DOMAIN seen :
                                \/ seen[k].feed_id # f
                                \/ seen[k].account_id # a
                                \/ seen[k].item_guid # items[i].guid
                         THEN {i} ELSE {})
           \* ... and those with no row in the database at that moment
           absent == run[p].absent \cup
                        (IF \A k \in DOMAIN posted_items :
                                \/ posted_items[k].feed_id # f
                                \/ posted_items[k].account_id # a
                                \/ posted_items[k].item_guid # items[i].guid
                         THEN {i} ELSE {})
           tp     == ToPost(unseen)
       IN  run' = [run EXCEPT ![p] =
                     IF i < Len(items)
                     THEN Pinned([@ EXCEPT !.scan = i, !.unseen = unseen,
                                           !.fresh = fresh, !.absent = absent])
                     ELSE Closed(Pinned([@ EXCEPT
                        !.scan    = 0,
                        !.unseen  = <<>>,
                        !.fresh   = {},
                        !.absent  = {},
                        !.acc     = a,
                        !.accq    = rest,
                        !.postq   = tp,
                        !.skipped = @ + SkippedDelta(unseen),
                        !.pairs   = Append(@,
                            [feed |-> f, acc |-> a, first |-> Len(run[p].calls) + 1,
                             n |-> Len(items), fresh |-> fresh,
                             absent |-> absent]),
                        !.pc      = IF tp # <<>> THEN "post"
                                    ELSE AfterAccount(rest, run[p].feedq)]))]
    /\ Wal(p, FALSE)
    /\ UNCHANGED <<feeds, accounts, feed_accounts, posted_items, run_log, acked,
                   passes, admin,
                   sched, toot, web>>

\* what requests.post / resp.json() may give: a body with an id, a body
\* without one, or an exception (transport error, timeout, invalid JSON)
Responses == {"id", "error", "exception"}

\* lines 351-358: the request for the next item is sent and answered by resp
Send(p, resp) ==
    /\ run[p].pc = "post"
    /\ LET item == Head(run[p].postq)
           t    == <<run[p].feed, run[p].acc, item.guid>>
       IN  /\ run' = [run EXCEPT ![p] =
                         [@ EXCEPT
                            !.resp  = resp,
                            !.calls = Append(@, [feed |-> t[1], acc |-> t[2],
                                                 guid |-> t[3], pos |-> item.pos,
                                                 resp |-> resp,
                                                 pair |-> Len(run[p].pairs),
                                                 insert |-> "none"]),
                            !.pc    = "resp"]]
           /\ acked' = IF resp = "id" THEN [acked EXCEPT ![t] = @ + 1] ELSE acked
    /\ UNCHANGED <<feeds, accounts, feed_accounts, posted_items, run_log, passes, admin,
                   sched, toot, web, behind>>

\* the call with any outcome; at most MaxFaults calls of a pass fail
Post(p) ==
    \E resp \in Responses :
        /\ resp # "id" => Cardinality(Failed(run[p].calls)) < MaxFaults
        /\ Send(p, resp)

\* the call when the server accepts every status
PostAcked(p) == Send(p, "id")

\* the call when the server rejects the status of some items every time (a
\* text over its length limit, say) and accepts the others
PostRejecting(p, rejected) ==
    /\ run[p].pc = "post"
    /\ Send(p, IF Head(run[p].postq).guid \in rejected THEN "error" ELSE "id")

\* a mutant: an item whose call failed stays at the head of the list
RestAfterRetry(postq, resp) == IF resp = "id" THEN Tail(postq) ELSE postq

\* for item in to_post (line 349): the loop moves on whatever the outcome
RestAfter(postq, resp) == Tail(postq)

\* history: what became of the call's INSERT (lines 360-364): not reached,
\* raised, or done
InsertOutcome(resp, raised) ==
    IF resp = "id" THEN (IF raised THEN "raised" ELSE "done") ELSE "none"

\* a mutant: the branch that writes the ledger row is never taken
ShouldRecordNever(resp) == FALSE

\* a mutant: the ledger row is written whatever the response
ShouldRecordAlways(resp) == TRUE

\* if data.get("id") (line 359)
ShouldRecord(resp) == resp = "id"

\* a mutant: the sleep sits inside the success branch
PacingDelaysOnSuccess(resp) == IF resp = "id" THEN 1 ELSE 0

\* time.sleep(API_DELAY) (line 373): once per item, whatever the outcome
PacingDelays(resp) == 1

\* time.sleep(API_DELAY) (373) after the last item of the pass.  With no
\* transaction open the pass has nothing more to do with the database and
\* the sleep, the return (375) and conn.close() (377) are part of the step;
\* inside a transaction the pass sleeps with it, and the lock it may hold,
\* until it returns
Asleep(r) ==
    IF r.pc = "log" /\ r.txn # "none" THEN [r EXCEPT !.pc = "sleep"] ELSE Closed(r)

\* lines 359-373: the ledger row, the counters, the detail line, the sleep.
\* fault: the INSERT or its commit raises sqlite3.OperationalError, "locked"
\* (database is locked) or "full" (database or disk is full); "no" when it
\* does not.  An INSERT that raises on a foreign key leaves its transaction
\* open with the write lock; one that raises on a locked database leaves it
\* open without the lock; on a full database SQLite rolls the transaction
\* back.
RecordWith(p, fault) ==
    /\ run[p].pc = "resp"
    /\ LET f    == run[p].feed
           a    == run[p].acc
           item == Head(run[p].postq)
           resp == run[p].resp
           rest == RestAfter(run[p].postq, resp)
           ins  == InsertOrIgnore(posted_items, f, a, item.guid)
           next == AfterItem(rest, run[p].accq, run[p].feedq)
           sent == resp # "exception" /\ ShouldRecord(resp)
       IN  IF sent /\ fault = "no" /\ ~ins.raised
           THEN /\ posted_items' = ins.rows
                /\ run' = [run EXCEPT ![p] =
                             Closed([@ EXCEPT !.posted = @ + 1,
                                       !.txn    = "none",
                                       !.snap   = NoSnap,
                                       !.calls[Len(run[p].calls)].insert = "done",
                                       !.lines  = Append(@, Line("ok", f, a, item.guid)),
                                       !.sleeps = @ + PacingDelays(resp),
                                       !.postq  = rest,
                                       !.resp   = "none",
                                       !.pc     = next])]
                /\ Wal(p, TRUE)
           ELSE /\ posted_items' = posted_items
                /\ run' = [run EXCEPT ![p] =
                             Asleep([@ EXCEPT !.errors = @ + 1,
                                       !.faults = @ + 1,
                                       !.txn    = IF ~sent THEN @
                                                  ELSE IF fault = "locked" THEN Begun(@)
                                                  ELSE IF fault = "full" THEN "none"
                                                  ELSE "write",
                                       !.snap   = IF sent /\ fault # "locked" THEN NoSnap
                                                  ELSE @,
                                       !.calls[Len(run[p].calls)].insert =
                                           InsertOutcome(resp, fault # "no" \/ ins.raised),
                                       !.sleeps = @ + PacingDelays(resp),
                                       !.lines  = Append(@,
                                           Line(IF resp = "error" THEN "api" ELSE "exc",
                                                f, a, item.guid)),
                                       !.postq  = rest,
                                       !.resp   = "none",
                                       !.pc     = next])]
                /\ Wal(p, FALSE)
    /\ UNCHANGED <<feeds, accounts, feed_accounts, run_log, acked, passes, admin,
                   sched, toot, web>>

\* the step as it runs: the INSERT raises when the write is refused
Record(p) == RecordWith(p, IF Refused(p) THEN "locked" ELSE "no")

\* lines 373-377 after the last item of a pass that is inside a transaction:
\* the sleep is over, execute_feed_run returns its counts and finally closes
\* the connection, which rolls the transaction back and frees its lock
Sleep(p) ==
    /\ run[p].pc = "sleep"
    /\ run' = [run EXCEPT ![p] = Closed([@ EXCEPT !.pc = "log"])]
    /\ Wal(p, FALSE)
    /\ UNCHANGED <<feeds, accounts, feed_accounts, posted_items, run_log, acked,
                   passes, admin, sched, toot, web>>

\* a mutant: every line is stored
SummaryOfAll(lines) == lines

\* "\n".join(lines[:40]) (line 391): the lines kept, one per row of the text
SummaryOf(lines) == Take(lines, 40)

\* the rows of run_log the model keeps: all of them (keep = 0), or the
\* newest keep
Newest(rows, keep) ==
    IF keep = 0 \/ Len(rows) <= keep THEN rows
    ELSE SubSeq(rows, Len(rows) - keep + 1, Len(rows))

\* run_job, lines 385-398: one run_log row for the returned pass.
\* fault: the INSERT or its commit raises; run_job's handler (397-398) logs
\* the exception and the pass leaves no run_log row
LogRunKeeping(p, fault, keep) ==
    /\ run[p].pc = "log"
    /\ run_log' = IF fault THEN run_log
                  ELSE Newest(Append(run_log,
                     [triggered |-> TriggerOf(p),
                      posted    |-> run[p].posted,
                      skipped   |-> run[p].skipped,
                      errors    |-> run[p].errors,
                      summary   |-> SummaryOf(run[p].lines)]), keep)
    /\ run' = [run EXCEPT ![p] = IdleRun]
    /\ Wal(p, ~fault)
    /\ UNCHANGED <<feeds, accounts, feed_accounts, posted_items, acked, passes, admin,
                   sched, toot, web>>

\* the step with every row of run_log kept
LogRunWith(p, fault) == LogRunKeeping(p, fault, 0)

\* the step as it runs, on a connection of its own (line 387)
LogRun(p) == LogRunWith(p, Locked(p))

\* A statement of the pass raises sqlite3.OperationalError on an unreadable
\* database or on a full one (database or disk is full).  Outside the per-item try (the accounts query at
\* 314, the UPDATE / commit at 325-329, the ledger lookup at 340) nothing in
\* execute_feed_run catches it: finally closes the connection (376-377) and
\* the exception reaches run_job's handler with the counters and lines of
\* the pass lost.  At the ledger INSERT (360-364) the handler at 370 counts
\* an error and the transaction is rolled back; at the run_log INSERT
\* (388-393) the pass leaves no record.
StorageFault(p) ==
    CASE run[p].pc \in {"feed", "fetch", "acc"} ->
            /\ run' = [run EXCEPT ![p] =
                         Closed([@ EXCEPT !.pc = "raised", !.faults = @ + 1])]
            /\ Wal(p, FALSE)
            /\ UNCHANGED <<feeds, accounts, feed_accounts, posted_items, run_log,
                           acked, passes, admin, sched, toot, web>>
      [] run[p].pc = "resp" /\ run[p].resp = "id" -> RecordWith(p, "full")
      [] run[p].pc = "log" -> LogRunWith(p, TRUE)
      [] OTHER -> FALSE

\* run_job, lines 397-398: the exception is logged, no run_log row is written
LogException(p) ==
    /\ run[p].pc = "raised"
    /\ run' = [run EXCEPT ![p] = IdleRun]
    /\ UNCHANGED <<feeds, accounts, feed_accounts, posted_items, run_log, acked,
                   passes, admin,
                   sched, toot, web, behind>>

(* ------------------------------------------------------------------ *)
(* Admin routes                                                       *)
(* ------------------------------------------------------------------ *)

\* A request whose statement meets the write lock of a pass waits for it
\* (busy timeout, 5 s); when the wait is over it writes, or it ends in
\* sqlite3.OperationalError and changes no table.  The requests below find
\* the database free; locked_request and locked_answer are the ones that wait.
\* The _rows definitions are the statement and its commit.

\* UPDATE feeds SET active=1-active WHERE id=? and its commit (1181-1182)
feeds_toggle_rows(fid) ==
    /\ feeds' = IF feeds[fid].present
                THEN [feeds EXCEPT ![fid].active = ~@]
                ELSE feeds
    /\ Committed(feeds[fid].present)
    /\ UNCHANGED <<accounts, feed_accounts, posted_items, run_log, run, acked, passes,
                   sched, toot>>

\* feeds_toggle (1177-1183)
feeds_toggle(fid) ==
    /\ admin < MaxAdmin
    /\ Holders = {}
    /\ feeds_toggle_rows(fid)
    /\ admin' = admin + 1
    /\ UNCHANGED web

\* feeds_add (lines 1098-1119) with a new URL: the row gets the next id and
\* the defaults (active = 1, last_status 'pending') and is committed; the
\* ticked accounts (accs, in the order of the form) are linked after that.
\* An id is given out once, which bounds the requests of this kind
feeds_add(fid, accs) ==
    /\ Holders = {}
    /\ web.adding = <<>>
    /\ ~feeds[fid].present
    /\ feeds[fid].last_status = "never"
    /\ \A g \in FeedIds : g < fid => feeds[g].last_status # "never"
    /\ feeds' = [feeds EXCEPT ![fid] = [present |-> TRUE, active |-> TRUE,
                                        last_status |-> "pending",
                                        last_fetched_at |-> 0]]
    /\ web' = [web EXCEPT !.adding = <<fid, accs>>]
    /\ admin' = admin + 1
    /\ Committed(TRUE)
    /\ UNCHANGED <<accounts, feed_accounts, posted_items, run_log, run, acked, passes,
                   sched, toot>>

\* INSERT INTO feed_accounts for the feed fid and each of the accounts accs
\* on a connection that has the write lock: an insert that raises on a
\* missing parent row is passed over
LinksMade(fid, accs) ==
    IF feeds[fid].present
    THEN {<<fid, a>> : a \in {b \in accs : accounts[b].present}}
    ELSE {}

\* feeds_add, lines 1120-1127: the links of the new feed, one INSERT per
\* ticked account, and the second commit.  An INSERT that meets the write
\* lock of a pass waits for it and raises; except (1125-1126) passes it over
\* and the loop goes on to the next account.  The first INSERT that finds
\* the database free takes the lock, and the inserts after it and the commit
\* follow at once.
feeds_add_links ==
    /\ web.adding # <<>>
    /\ LET fid  == web.adding[1]
           accs == web.adding[2]
           made == LinksMade(fid, {accs[i] : i \in DOMAIN accs})
       IN  IF accs # <<>> /\ Holders # {}
           THEN /\ web' = [web EXCEPT !.adding = <<fid, Tail(accs)>>]
                /\ UNCHANGED <<feed_accounts, behind>>
           ELSE /\ feed_accounts' = feed_accounts \cup made
                /\ web' = [web EXCEPT !.adding = <<>>]
                /\ Committed(made # {})
    /\ UNCHANGED <<feeds, accounts, posted_items, run_log, run, acked, passes, admin,
                   sched, toot>>

\* feeds_edit (POST, lines 1134-1166) of a feed that exists: its links are
\* deleted and made again from the ticked accounts, in one transaction
feeds_edit(fid, accs) ==
    /\ admin < MaxAdmin
    /\ Holders = {}
    /\ feeds[fid].present
    /\ feed_accounts' = {l \in feed_accounts : l[1] # fid} \cup LinksMade(fid, accs)
    /\ admin' = admin + 1
    /\ Committed(TRUE)
    /\ UNCHANGED <<feeds, accounts, posted_items, run_log, run, acked, passes,
                   sched, toot, web>>

\* a mutant: the delete without its cascade (foreign keys not enforced)
feeds_delete_no_cascade(fid) ==
    /\ admin < MaxAdmin
    /\ Holders = {}
    /\ feeds' = [feeds EXCEPT ![fid].present = FALSE]
    /\ admin' = admin + 1
    /\ Committed(feeds[fid].present)
    /\ UNCHANGED <<accounts, feed_accounts, posted_items, run_log, run, acked, passes,
                   sched, toot, web>>

\* DELETE FROM feeds WHERE id=?, with ON DELETE CASCADE, and its commit
\* (1190-1191)
feeds_delete_rows(fid) ==
    /\ feeds' = [feeds EXCEPT ![fid].present = FALSE]
    /\ feed_accounts' = {l \in feed_accounts : l[1] # fid}
    /\ posted_items' = SelectSeq(posted_items, LAMBDA r : r.feed_id # fid)
    /\ Committed(feeds[fid].present)
    /\ UNCHANGED <<accounts, run_log, run, acked, passes,
                   sched, toot>>

\* feeds_delete (1186-1193)
feeds_delete(fid) ==
    /\ admin < MaxAdmin
    /\ Holders = {}
    /\ feeds_delete_rows(fid)
    /\ admin' = admin + 1
    /\ UNCHANGED web

\* DELETE FROM mastodon_accounts WHERE id=?, with cascade, and its commit
\* (1342-1343)
accounts_disconnect_rows(aid) ==
    /\ accounts' = [accounts EXCEPT ![aid].present = FALSE]
    /\ feed_accounts' = {l \in feed_accounts : l[2] # aid}
    /\ posted_items' = SelectSeq(posted_items, LAMBDA r : r.account_id # aid)
    /\ Committed(accounts[aid].present)
    /\ UNCHANGED <<feeds, run_log, run, acked, passes,
                   sched, toot>>

\* accounts_disconnect (1337-1347)
accounts_disconnect(aid) ==
    /\ admin < MaxAdmin
    /\ Holders = {}
    /\ accounts_disconnect_rows(aid)
    /\ admin' = admin + 1
    /\ UNCHANGED web

\* DELETE FROM run_log and its commit (1374-1375)
log_clear_rows ==
    /\ run_log' = <<>>
    /\ Committed(TRUE)
    /\ UNCHANGED <<feeds, accounts, feed_accounts, posted_items, run, acked, passes,
                   sched, toot>>

\* log_clear (1370-1377)
log_clear ==
    /\ admin < MaxAdmin
    /\ Holders = {}
    /\ log_clear_rows
    /\ admin' = admin + 1
    /\ UNCHANGED web

(* ------------------------------------------------------------------ *)
(* format_toot: texts are sequences of characters                     *)
(* ------------------------------------------------------------------ *)

\* no format_toot call yet
NoToot == [asked |-> FALSE]

\* a text of n characters c
Rep(c, n) == [i \in 1..n |-> c]

\* characters that are not one letter: the line break, the two symbols
NL == "NL"
Newspaper == "NEWSPAPER"
Ellipsis == "ELLIPSIS"

\* str.strip() takes white space away; \w is anything but these and the
\* punctuation the inputs use
Space == {" ", NL}
NonWord == Space \cup {"#", ",", "!", "-", Newspaper, Ellipsis}

\* s.split(sep)
RECURSIVE Split(_, _)
Split(s, sep) ==
    IF \E i \in DOMAIN s : s[i] = sep
    THEN LET i == CHOOSE k \in DOMAIN s :
                     s[k] = sep /\ \A j \in 1..(k - 1) : s[j] # sep
         IN  <<SubSeq(s, 1, i - 1)>> \o Split(SubSeq(s, i + 1, Len(s)), sep)
    ELSE <<s>>

\* s.lstrip(cs), s.rstrip(cs), s.strip()
RECURSIVE LStrip(_, _)
LStrip(s, cs) == IF s # <<>> /\ s[1] \in cs THEN LStrip(Tail(s), cs) ELSE s

RECURSIVE RStrip(_, _)
RStrip(s, cs) ==
    IF s # <<>> /\ s[Len(s)] \in cs THEN RStrip(SubSeq(s, 1, Len(s) - 1), cs) ELSE s

Strip(s) == RStrip(LStrip(s, Space), Space)

\* sep.join(parts)
RECURSIVE Join(_, _)
Join(parts, sep) ==
    IF parts = <<>> THEN <<>>
    ELSE IF Len(parts) = 1 THEN parts[1]
    ELSE parts[1] \o sep \o Join(Tail(parts), sep)

\* line 278: t and re.match(r"^\w+$", t, re.UNICODE)
ValidTag(t) == t # <<>> /\ \A i \in DOMAIN t : t[i] \notin NonWord

\* lines 276-279: the feed's tags that pass, each behind one '#'
RECURSIVE FeedTags(_)
FeedTags(pieces) ==
    IF pieces = <<>> THEN <<>>
    ELSE LET t == LStrip(Strip(pieces[1]), {"#"})
         IN  (IF ValidTag(t) THEN << <<"#">> \o t >> ELSE <<>>)
             \o FeedTags(Tail(pieces))

\* line 275: the two fixed tags
FixedTags == << <<"#", "R", "S", "S">>,
               <<"#", "x", "s", "u", "k", "a", "x", "R", "S", "S">> >>

\* lines 275-280
TagsOf(hashtags) == Join(FixedTags \o FeedTags(Split(hashtags, ",")), <<" ">>)

\* line 274: feed_name or "RSS Feed", behind the symbol
Header(feed_name) ==
    <<Newspaper, " ">>
    \o (IF feed_name # <<>> THEN feed_name
        ELSE <<"R", "S", "S", " ", "F", "e", "e", "d">>)

\* lines 282-283 and 289-290: the link, when there is one, and the tags
Ending(link, tags) ==
    (IF link # <<>> THEN <<NL, NL>> \o link ELSE <<>>) \o <<NL, NL>> \o tags

\* lines 281-284: the text before any cut
FullBody(item, feed_name, hashtags) ==
    Header(feed_name) \o <<NL, NL>> \o item.title
    \o Ending(item.link, TagsOf(hashtags))

\* line 286: the text with an empty title, the link's place always kept
Base(item, feed_name, hashtags) ==
    Header(feed_name) \o <<NL, NL, NL, NL>> \o item.link \o <<NL, NL>>
    \o TagsOf(hashtags)

\* line 287
Budget(item, feed_name, hashtags) ==
    Max(10, 490 - Len(Base(item, feed_name, hashtags)))

\* format_toot (lines 270-292)
format_toot(item, feed_name, hashtags) ==
    IF Len(FullBody(item, feed_name, hashtags)) > 490
    THEN Header(feed_name) \o <<NL, NL>>
         \o Take(item.title, Budget(item, feed_name, hashtags)) \o <<Ellipsis>>
         \o Ending(item.link, TagsOf(hashtags))
    ELSE FullBody(item, feed_name, hashtags)

\* a caller formats the item it is about to send (line 352)
Format ==
    /\ ~toot.asked
    /\ "item" \in DOMAIN toot
    /\ toot' = [toot EXCEPT !.asked = TRUE,
                            !.body = format_toot(toot.item, toot.feed_name,
                                                 toot.hashtags)]
    /\ UNCHANGED <<feeds, accounts, feed_accounts, posted_items, run_log, run,
                   acked, passes, admin, sched, web, behind>>

(* ------------------------------------------------------------------ *)
(* Sessions, login and the OAuth callback                             *)
(* ------------------------------------------------------------------ *)

\* browsers: each holds one signed session cookie
Sessions == {1, 2}

\* a cookie without keys.  admin and csrf are the session's keys (csrf 0: no
\* such key); via is history: the request that last set the admin key
NoSession == [admin |-> FALSE, csrf |-> 0, via |-> "none"]

\* no session has a key, no OAuth state is pending (settings has no oauth_
\* key), no request is waiting; tokens and states are numbered in the order
\* they were stored, 0 standing for none.  connecting and callback hold, per
\* browser, the request that waits for the instance or stands between two
\* of its commits, with the cookie it came with; waiting holds, per browser,
\* the admin request that waits for the database's write lock; manual counts
\* the threads run_now has started.
NoWeb == [session |-> [s \in Sessions |-> NoSession], tokens |-> 0,
          pending |-> {}, states |-> 0, adding |-> <<>>,
          connecting |-> [s \in Sessions |-> <<>>],
          callback |-> [s \in Sessions |-> <<>>],
          waiting |-> [s \in Sessions |-> <<>>],
          manual |-> 0]

\* session.permanent = True (line 1026) is set by the login POST only; the
\* response to a request with a permanent session carries the session
\* cookie again even when the view did not touch the session
Permanent(cookie) == cookie.admin /\ cookie.via = "login"

\* the tokens and states a request may carry
FormTokens == 0..MaxTokens

\* get_csrf (lines 445-448): the session gets a fresh token unless it has one
get_csrf(w, s) ==
    IF w.session[s].csrf # 0 THEN w
    ELSE [w EXCEPT !.session[s].csrf = w.tokens + 1, !.tokens = @ + 1]

\* ok_csrf (451-452): compare_digest(session.get("csrf", ""), form _t)
ok_csrf(w, s, t) == w.session[s].csrf = t

\* oauth_callback, line 1333: session["admin"] = True, on the session the
\* request came with
AfterCallback(cookie) ==
    [cookie EXCEPT !.admin = TRUE,
                   !.via = IF cookie.admin THEN @ ELSE "oauth"]

\* admin_required (436-442): the wrapped view runs only for an admin session
admin_required(s) == web.session[s].admin

\* GET /login (1014-1037): an admin is sent on, anybody else gets the form
\* and with it a token
login_get(s) ==
    /\ ~web.session[s].admin
    /\ web.session[s].csrf # 0 \/ web.tokens < MaxTokens
    /\ web' = get_csrf(web, s)
    /\ UNCHANGED <<feeds, accounts, feed_accounts, posted_items, run_log, run,
                   acked, passes, admin, sched, toot, behind>>

\* POST /login (1014-1037) with form token t and credentials that match
\* ADMIN_USERNAME / ADMIN_PASSWORD or do not
login_post(s, t, creds_ok) ==
    /\ ~web.session[s].admin
    /\ IF ok_csrf(web, s, t) /\ creds_ok
       THEN web' = [web EXCEPT !.session[s] =
                       [admin |-> TRUE, csrf |-> 0, via |-> "login"]]
       ELSE /\ web.session[s].csrf # 0 \/ web.tokens < MaxTokens
            /\ web' = get_csrf(web, s)
    /\ UNCHANGED <<feeds, accounts, feed_accounts, posted_items, run_log, run,
                   acked, passes, admin, sched, toot, behind>>

\* /logout (1040-1043): session.clear()
logout(s) ==
    /\ web.session[s] # NoSession
    /\ web' = [web EXCEPT !.session[s] = NoSession]
    /\ UNCHANGED <<feeds, accounts, feed_accounts, posted_items, run_log, run,
                   acked, passes, admin, sched, toot, behind>>

\* an admin page is rendered (render, line 978): the form token is made
admin_page(s) ==
    /\ admin_required(s)
    /\ web.session[s].csrf = 0
    /\ web.tokens < MaxTokens
    /\ web' = get_csrf(web, s)
    /\ UNCHANGED <<feeds, accounts, feed_accounts, posted_items, run_log, run,
                   acked, passes, admin, sched, toot, behind>>

\* POST /accounts/connect, lines 1215-1233: the session and the form token
\* are checked, then the request waits for the instance to register the app
\* (requests.post, timeout 15)
accounts_connect(s, t) ==
    /\ admin_required(s)
    /\ ok_csrf(web, s, t)
    /\ web.connecting[s] = <<>>
    /\ web.states + Cardinality({r \in Sessions : web.connecting[r] # <<>>})
          < MaxStates
    /\ web' = [web EXCEPT !.connecting[s] = <<web.session[s]>>]
    /\ UNCHANGED <<feeds, accounts, feed_accounts, posted_items, run_log, run,
                   acked, passes, admin, sched, toot, behind>>

\* lines 1234-1257, once the instance has answered.  registered: the answer
\* has a client_id; a fresh state is then stored under oauth_<state>
\* (cfg_set, 1244) and handed, in the authorize URL, to the browser and
\* through it to the instance.  Whatever the browser's session has become
\* while the request waited, the response brings back the cookie of the
\* request: after flash (1236, 1240) always, otherwise for a permanent
\* session.  cfg_set raises when the database is locked.
accounts_connect_answer(s, registered) ==
    /\ web.connecting[s] # <<>>
    /\ LET cookie == web.connecting[s][1]
           stored == registered /\ Holders = {}
       IN  /\ web' = [web EXCEPT
                        !.connecting[s] = <<>>,
                        !.pending    = IF stored THEN @ \cup {web.states + 1} ELSE @,
                        !.states     = IF stored THEN @ + 1 ELSE @,
                        !.session[s] = IF ~registered \/ Permanent(cookie)
                                       THEN cookie ELSE @]
           /\ Committed(stored)
    /\ UNCHANGED <<feeds, accounts, feed_accounts, posted_items, run_log, run,
                   acked, passes, admin, sched, toot>>

\* GET /oauth/callback with a code and a state, lines 1260-1285: the state
\* is looked up (cfg_get, 1265) and the request waits for the instance to
\* exchange the code (requests.post, timeout 15)
oauth_callback(s, code, state) ==
    /\ code # 0 /\ state \in web.pending
    /\ web.callback[s] = <<>>
    /\ web' = [web EXCEPT !.callback[s] =
                   <<[pc |-> "token", state |-> state, existing |-> 0,
                      cookie |-> web.session[s]]>>]
    /\ UNCHANGED <<feeds, accounts, feed_accounts, posted_items, run_log, run,
                   acked, passes, admin, sched, toot, behind>>

\* the same request with a missing code or an unknown state (1266-1268): it
\* ends in a redirect, nothing is written
oauth_callback_refused(s, code, state) ==
    /\ ~(code # 0 /\ state \in web.pending)
    /\ UNCHANGED vars

\* lines 1276-1303: the instance has answered.  granted: the answer has an
\* access token; the request goes on to write the account.  Otherwise it
\* ends in a redirect after flash, and the response brings back the cookie
\* of the request.
oauth_token(s, granted) ==
    /\ web.callback[s] # <<>>
    /\ web.callback[s][1].pc = "token"
    /\ web' = IF granted
              THEN [web EXCEPT !.callback[s][1].pc = "account"]
              ELSE [web EXCEPT !.callback[s] = <<>>,
                               !.session[s] = web.callback[s][1].cookie]
    /\ UNCHANGED <<feeds, accounts, feed_accounts, posted_items, run_log, run,
                   acked, passes, admin, sched, toot, behind>>

\* a row of mastodon_accounts whose id has not been given out yet
NeverAccount == [present |-> FALSE, access_token |-> "never"]

\* the id the next INSERT INTO mastodon_accounts gets (AUTOINCREMENT: one
\* more than the largest id ever given), 0 when AccountIds has none left
NextAccountId ==
    LET never == {a \in AccountIds : accounts[a] = NeverAccount}
    IN  IF never = {} THEN 0 ELSE CHOOSE a \in never : \A b \in never : a <= b

\* lines 1305-1310: the account the instance named is looked up by instance
\* and name.  aid is the id of its row when the instance names an account
\* that has one, and the id the next INSERT would get when it names an
\* account that has none; existing keeps the id that was found, 0 for none.
\* The SELECT takes no lock and leaves no transaction open, so other requests
\* are served before the statement that follows.  An id is left for every
\* INSERT that is on its way.
oauth_existing(s, aid) ==
    /\ web.callback[s] # <<>>
    /\ web.callback[s][1].pc = "account"
    /\ \/ accounts[aid].present
       \/ /\ aid = NextAccountId
          /\ Cardinality({r \in Sessions :
                            /\ web.callback[r] # <<>>
                            /\ web.callback[r][1].pc = "write"
                            /\ web.callback[r][1].existing = 0})
               < Cardinality({a \in AccountIds : accounts[a] = NeverAccount})
    /\ web' = [web EXCEPT
                 !.callback[s][1].pc = "write",
                 !.callback[s][1].existing = IF accounts[aid].present
                                             THEN aid ELSE 0]
    /\ UNCHANGED <<feeds, accounts, feed_accounts, posted_items, run_log, run,
                   acked, passes, admin, sched, toot, behind>>

\* lines 1311-1326: with a row found, UPDATE ... WHERE id = existing
\* (1312-1316) stores the token in that row, and in no row when the row has
\* been deleted since the SELECT; with none found, INSERT (1320-1324) makes a
\* row under the next id.  The commit follows (1317, 1325) and flash touches
\* the session.  While a pass holds the write lock the statement waits and,
\* the lock not given up in time, raises: the request ends and the response
\* brings back the cookie of a permanent session.  existing is not read after
\* line 1318 and is put back to 0.
oauth_account(s) ==
    /\ web.callback[s] # <<>>
    /\ web.callback[s][1].pc = "write"
    /\ LET cookie   == web.callback[s][1].cookie
           existing == web.callback[s][1].existing
           aid      == IF existing # 0 THEN existing ELSE NextAccountId
           wrote    == Holders = {} /\ (existing = 0 \/ accounts[existing].present)
       IN  /\ accounts' = IF wrote
                          THEN [accounts EXCEPT ![aid] =
                                  [present |-> TRUE, access_token |-> "tok"]]
                          ELSE accounts
           /\ web' = IF Holders = {}
                     THEN [web EXCEPT !.callback[s][1].pc = "state",
                                      !.callback[s][1].existing = 0]
                     ELSE [web EXCEPT
                             !.callback[s] = <<>>,
                             !.session[s]  = IF Permanent(cookie) THEN cookie ELSE @]
           /\ Committed(wrote)
    /\ UNCHANGED <<feeds, feed_accounts, posted_items, run_log, run,
                   acked, passes, admin, sched, toot>>

\* lines 1327-1334: the state is deleted and committed, the session is
\* marked, and the response brings the marked cookie.  On a locked database
\* the DELETE raises: the token stays stored, the state stays pending, and
\* the response brings back the cookie of the request (flash at 1318 / 1326
\* has touched it) without the mark.
oauth_state(s) ==
    /\ web.callback[s] # <<>>
    /\ web.callback[s][1].pc = "state"
    /\ LET cookie == web.callback[s][1].cookie
           state  == web.callback[s][1].state
       IN  /\ web' = IF Holders = {}
                     THEN [web EXCEPT !.callback[s] = <<>>,
                                      !.pending     = @ \ {state},
                                      !.session[s]  = AfterCallback(cookie)]
                     ELSE [web EXCEPT !.callback[s] = <<>>,
                                      !.session[s]  = cookie]
           /\ Committed(Holders = {} /\ state \in web.pending)
    /\ UNCHANGED <<feeds, accounts, feed_accounts, posted_items, run_log, run,
                   acked, passes, admin, sched, toot>>

\* /run/now (1352-1357): a thread is started on run_job and the request is
\* answered; the thread reads the feeds when it gets to run
run_now(s, limit) ==
    /\ admin_required(s)
    /\ web.manual < limit
    /\ web' = [web EXCEPT !.manual = @ + 1]
    /\ UNCHANGED <<feeds, accounts, feed_accounts, posted_items, run_log, run,
                   acked, passes, admin, sched, toot, behind>>

\* the one-click admin routes that write: the route and the id it is given
\* (log_clear has none)
LockedRoutes ==
    ({"feeds_toggle", "feeds_delete"} \X FeedIds)
      \cup ({"accounts_disconnect"} \X AccountIds)
      \cup {<<"log_clear", 0>>}

\* feeds_toggle, feeds_delete, accounts_disconnect or log_clear while a pass
\* holds the write lock: admin_required lets the request in and its UPDATE
\* or DELETE waits for the lock (sqlite3.connect, default timeout of 5 s).
\* Which route it is shows when the wait is over.
locked_request(s) ==
    /\ admin_required(s)
    /\ Holders # {}
    /\ web.waiting[s] = <<>>
    /\ Cardinality({r \in Sessions : web.waiting[r] # <<>>}) < MaxWaiting
    /\ web' = [web EXCEPT !.waiting[s] = <<web.session[s]>>]
    /\ UNCHANGED <<feeds, accounts, feed_accounts, posted_items, run_log, run,
                   acked, passes, admin, sched, toot, behind>>

\* the wait of the request for route with id is over.  With the lock still
\* held the statement raises sqlite3.OperationalError: no table changes and
\* the request is answered 500; with the lock free the statement runs and
\* the route goes on as usual.  The response carries the cookie the request
\* came with when the view changed the session (flash, 455-457: every route
\* but feeds_toggle, after its commit) or the session is permanent.
locked_answer(s, route, id) ==
    /\ web.waiting[s] # <<>>
    /\ LET cookie == web.waiting[s][1]
           kept   == IF Permanent(cookie) THEN cookie ELSE web.session[s]
       IN  IF Holders # {}
           THEN /\ web' = [web EXCEPT !.waiting[s] = <<>>, !.session[s] = kept]
                /\ UNCHANGED <<feeds, accounts, feed_accounts, posted_items,
                               run_log, run, acked, passes, admin, sched, toot,
                               behind>>
           ELSE /\ web' = [web EXCEPT !.waiting[s] = <<>>,
                                      !.session[s] = IF route = "feeds_toggle"
                                                     THEN kept ELSE cookie]
                /\ admin' = admin + 1
                /\ CASE route = "feeds_toggle" -> feeds_toggle_rows(id)
                     [] route = "feeds_delete" -> feeds_delete_rows(id)
                     [] route = "accounts_disconnect" ->
                            accounts_disconnect_rows(id)
                     [] OTHER -> log_clear_rows

\* the thread that run_now started enters execute_feed_run
run_job_manual ==
    /\ web.manual > passes
    /\ StartRun(1, web.manual)

(* ------------------------------------------------------------------ *)
(* Specifications                                                     *)
(* ------------------------------------------------------------------ *)

FeedRow(active) ==
    [present |-> TRUE, active |-> active, last_status |-> "pending",
     last_fetched_at |-> 0]

AccountRow(token) == [present |-> TRUE, access_token |-> token]

\* the ledger in which account a has already been sent guids 1..seen[a] of
\* every feed it is linked to
LedgerOf(links, seen) ==
    LET rows == {t \in Triples : <<t[1], t[2]>> \in links /\ t[3] <= seen[t[2]]}
        Key(t) == (t[1] * 10 + t[2]) * (MaxGuid + 1) + t[3]
        keys == Ascending({Key(t) : t \in rows})
    IN  [i \in 1..Len(keys) |->
            LET t == CHOOSE t \in rows : Key(t) = keys[i]
            IN  [feed_id |-> t[1], account_id |-> t[2], item_guid |-> t[3]]]

\* guids account 1 may have been sent before the pass (account 2: none)
MaxSeen == 2

\* One pass of the scheduler's job over a configured database.
InitRun ==
    /\ \E act \in [FeedIds -> BOOLEAN] :
          feeds = [f \in FeedIds |-> FeedRow(act[f])]
    /\ \E tok \in {"", "tok"} :
          accounts = [a \in AccountIds |-> AccountRow(IF a = 2 THEN tok ELSE "tok")]
    /\ feed_accounts \in SUBSET (FeedIds \X AccountIds)
    /\ \E seen \in {0, MaxSeen} :
          posted_items = LedgerOf(feed_accounts, [a \in AccountIds |-> IF a = 1 THEN seen ELSE 0])
    /\ run_log = <<>>
    /\ run = [p \in Threads |-> IdleRun]
    /\ acked = [t \in Triples |-> IF HasPosted(posted_items, t[1], t[2], t[3])
                                  THEN 1 ELSE 0]
    /\ passes = 0
    /\ admin = 0
    /\ sched = StartedAt(StoppedScheduler)
    /\ toot = NoToot
    /\ web = NoWeb
    /\ behind = {}

\* the documents of the one-pass specification: feed 1 is busy, the other
\* feeds are quiet
RunDocs ==
    [f \in FeedIds |->
        IF f = 1 THEN {RaiseDoc} \cup WindowDocs \cup ShortDocs
        ELSE {RaiseDoc, OkDoc(Window(1, 1)), OkDoc(Window(1, 3))}]

NextRun ==
    \/ StartRun(0, 1)
    \/ LoadAccounts(0)
    \/ Fetch(0, RunDocs)
    \/ Filter(0)
    \/ Post(0)
    \/ Record(0)
    \/ LogRun(0)

SpecRun == InitRun /\ [][NextRun]_vars

\* The same pass, with every step taken eventually: each statement of the
\* pass is ordinary sequential code, and a network call returns or times out.
SpecRunLive == InitRun /\ [][NextRun]_vars /\ WF_vars(NextRun)

\* the documents of the overlapping specification: a failed fetch, one item
FewDocs == [f \in FeedIds |-> {RaiseDoc, OkDoc(Window(1, 1))}]

\* Overlapping passes (the timer's and run_now's) and admin requests, among
\* them the edit that gives feed 1 account 2 in place of account 1.  Feed f
\* posts to account f.  Feed 1 is active and new; feed 2 was deactivated
\* after an earlier pass sent its item 1.
InitData ==
    /\ feeds = [f \in FeedIds |->
                  IF f = 1 THEN FeedRow(TRUE)
                  ELSE [present |-> TRUE, active |-> FALSE, last_status |-> "ok",
                        last_fetched_at |-> 1]]
    /\ accounts = [a \in AccountIds |-> AccountRow("tok")]
    /\ feed_accounts = {<<f, a>> \in FeedIds \X AccountIds : f = a}
    /\ posted_items = LedgerOf({l \in feed_accounts : l[1] # 1},
                               [a \in AccountIds |-> 1])
    /\ run_log = <<>>
    /\ run = [p \in Threads |-> IdleRun]
    /\ acked = [t \in Triples |-> IF HasPosted(posted_items, t[1], t[2], t[3])
                                  THEN 1 ELSE 0]
    /\ passes = 0
    /\ admin = 0
    /\ web = NoWeb
    /\ behind = {}

\* ... and start_scheduler has run once (line 1387)
Init ==
    /\ InitData
    /\ sched = StartedAt(StoppedScheduler)
    /\ toot = NoToot

Next ==
    \/ \E p \in Threads :
          \/ StartRun(p, MaxPasses)
          \/ LoadAccounts(p)
          \/ Fetch(p, FewDocs)
          \/ Filter(p)
          \/ Post(p)
          \/ Record(p)
          \/ Sleep(p)
          \/ LogRun(p)
          \/ LogException(p)
    \/ \E fid \in FeedIds : feeds_toggle(fid) \/ feeds_delete(fid)
    \/ feeds_edit(1, {2})
    \/ \E aid \in AccountIds : accounts_disconnect(aid)
    \/ log_clear

Spec == Init /\ [][Next]_vars

\* The same, with feed 1 posting to both accounts and yielding one or two
\* items, and feed 2 quiet (its document has the one item that was sent
\* before) and active or not: a request can then be served between the two
\* ledger lookups of a pass, and a pass whose INSERT failed on a foreign key
\* goes on to its next item, account or feed with its transaction open, or
\* through the sleep that ends it when no feed is left, so that the other
\* pass and the requests meet a locked database, and the other pass goes on
\* with a transaction of its own.  The links of feed 1 are the ones edited.
PairDocs ==
    [f \in FeedIds |->
        IF f = 1 THEN {OkDoc(Window(1, 1)), OkDoc(Window(1, 2))}
        ELSE {OkDoc(Window(1, 1))}]

NextLock ==
    \/ \E p \in Threads :
          \/ StartRun(p, MaxPasses)
          \/ LoadAccounts(p)
          \/ Fetch(p, PairDocs)
          \/ Filter(p)
          \/ Post(p)
          \/ Record(p)
          \/ Sleep(p)
          \/ LogRun(p)
          \/ LogException(p)
    \/ \E fid \in FeedIds : feeds_toggle(fid) \/ feeds_delete(fid)
    \/ \E accs \in SUBSET AccountIds : feeds_edit(1, accs)
    \/ \E aid \in AccountIds : accounts_disconnect(aid)
    \/ log_clear

InitLock ==
    /\ \E act \in BOOLEAN :
          feeds = [f \in FeedIds |->
                     IF f = 1 THEN FeedRow(TRUE)
                     ELSE [present |-> TRUE, active |-> act, last_status |-> "ok",
                           last_fetched_at |-> 1]]
    /\ accounts = [a \in AccountIds |-> AccountRow("tok")]
    /\ feed_accounts = {<<1, 1>>, <<1, 2>>, <<2, 2>>}
    /\ posted_items = LedgerOf({<<2, 2>>}, [a \in AccountIds |-> 1])
    /\ run_log = <<>>
    /\ run = [p \in Threads |-> IdleRun]
    /\ acked = [t \in Triples |-> IF HasPosted(posted_items, t[1], t[2], t[3])
                                  THEN 1 ELSE 0]
    /\ passes = 0
    /\ admin = 0
    /\ sched = StartedAt(StoppedScheduler)
    /\ toot = NoToot
    /\ web = NoWeb
    /\ behind = {}

SpecLock == InitLock /\ [][NextLock]_vars

\* Passes of the scheduler's job on a database whose statements may fail.
NextFail ==
    \/ StartRun(0, MaxPasses)
    \/ LoadAccounts(0)
    \/ Fetch(0, RunDocs)
    \/ Filter(0)
    \/ Post(0)
    \/ Record(0)
    \/ LogRun(0)
    \/ StorageFault(0)
    \/ LogException(0)

SpecFail == Init /\ [][NextFail]_vars

\* The scheduler from process start: registrations, the clock, countdown
\* queries, and the job's passes.
ElapseSteps == {600, 810}

InitSched ==
    /\ InitData
    /\ sched = StoppedScheduler
    /\ toot = NoToot

NextSched ==
    \/ start_scheduler
    \/ Query
    \/ \E d \in ElapseSteps : Elapse(d)
    \/ ClockSetBack(600)
    \/ StartRun(0, 1)
    \/ LoadAccounts(0)
    \/ Fetch(0, FewDocs)
    \/ Filter(0)
    \/ Post(0)
    \/ Record(0)
    \/ LogRun(0)

SpecSched == InitSched /\ [][NextSched]_vars

\* format_toot on titles and links around the cut, feed names and tag lists
TitleLens == {0, 5, 12, 436, 437, 461, 462, 600, 1000}

LinkLens == {0, 23, 470, 600}

FeedNames == {<<>>, <<"B", "l", "o", "g">>}

HashtagInputs ==
    { <<>>,
      <<"n", "e", "w", "s">>,
      <<"#", "n", "e", "w", "s", ",", " ", "t", "e", "c", "h">>,
      <<" ", ",", "b", "a", "d", " ", "t", "a", "g", ",", "!", "x", ",",
        "#", " ", "n", "o", ",", "#", "#", "o", "k", "_", "1">>,
      Join([i \in 1..40 |-> Rep("a", 10)], <<",">>) }

InitToot ==
    /\ InitData
    /\ sched = StartedAt(StoppedScheduler)
    /\ \E t \in TitleLens, l \in LinkLens, n \in FeedNames, h \in HashtagInputs :
          toot = [asked |-> FALSE,
                  item |-> [title |-> Rep("t", t), link |-> Rep("u", l)],
                  feed_name |-> n, hashtags |-> h, body |-> <<>>]

SpecToot == InitToot /\ [][Format]_vars

\* The end of a pass over a database of many feeds.  Feeds 1..n are active;
\* those in `linked` post to account 1 and their fetch has just failed (an
\* error and a line each), the others have no account (a line each).
\* execute_feed_run has returned; run_job is about to store the record.
LogFeedCounts == {1, 2, 3} \cup (36..45)

Linkings == {"all", "none", "odd", "third"}

IsLinked(how, f) ==
    CASE how = "all"   -> TRUE
      [] how = "none"  -> FALSE
      [] how = "odd"   -> f % 2 = 1
      [] how = "third" -> f % 3 = 0

ReturnedPass(n, how) ==
    LET linked == {f \in 1..n : IsLinked(how, f)}
    IN  [IdleRun EXCEPT
           !.pc       = "log",
           !.snapshot = [f \in 1..n |-> f],
           !.feed     = n,
           !.errors   = Cardinality(linked),
           !.faults   = Cardinality(linked),
           !.lines    = [f \in 1..n |->
                            IF f \in linked THEN Line("fetchfail", f, 0, 0)
                            ELSE Line("noacc", f, 0, 0)],
           !.fetchlog = [i \in 1..Cardinality(linked) |->
                            [feed |-> Ascending(linked)[i], ok |-> FALSE]]]

InitLog ==
    \E n \in LogFeedCounts, how \in Linkings :
        /\ feeds = [f \in 1..n |->
                       IF IsLinked(how, f)
                       THEN [FeedRow(TRUE) EXCEPT !.last_status = "error",
                                                  !.last_fetched_at = 1]
                       ELSE FeedRow(TRUE)]
        /\ accounts = [a \in AccountIds |-> AccountRow("tok")]
        /\ feed_accounts = {<<f, 1>> : f \in {g \in 1..n : IsLinked(how, g)}}
        /\ posted_items = <<>>
        /\ run_log = <<>>
        /\ run = [p \in Threads |-> IF p = 0 THEN ReturnedPass(n, how) ELSE IdleRun]
        /\ acked = [t \in Triples |-> 0]
        /\ passes = 1
        /\ admin = 0
        /\ sched = Fire(StartedAt(StoppedScheduler))
        /\ toot = NoToot
        /\ web = NoWeb
        /\ behind = {}

NextLog ==
    \/ LogRun(0)
    \/ log_clear

SpecLog == InitLog /\ [][NextLog]_vars

\* Overlapping passes while the administrator adds and toggles feeds, gives
\* feed 1 account 2 in place of account 1, and disconnects account 1.  Feed 1
\* is there and active; the id 2 has not been given out yet.  One pass of the timer's
\* job, and manual passes up to two passes in all.  A pass whose INSERT
\* failed on the disconnected account holds the write lock while the links
\* of the new feed are inserted.
InitAdd ==
    /\ feeds = [f \in FeedIds |->
                  IF f = 1 THEN FeedRow(TRUE)
                  ELSE [present |-> FALSE, active |-> FALSE,
                        last_status |-> "never", last_fetched_at |-> 0]]
    /\ accounts = [a \in AccountIds |-> AccountRow("tok")]
    /\ feed_accounts = {<<1, 1>>}
    /\ posted_items = <<>>
    /\ run_log = <<>>
    /\ run = [p \in Threads |-> IdleRun]
    /\ acked = [t \in Triples |-> 0]
    /\ passes = 0
    /\ admin = 0
    /\ sched = StartedAt(StoppedScheduler)
    /\ toot = NoToot
    /\ web = NoWeb
    /\ behind = {}

\* the account lists a form may carry: every account at most once, any order
AccountLists ==
    {l \in UNION {[1..n -> AccountIds] : n \in 0..Cardinality(AccountIds)} :
        \A i, j \in DOMAIN l : l[i] = l[j] => i = j}

NextAdd ==
    \/ \E p \in Threads :
          \/ StartRun(p, p + 1)
          \/ LoadAccounts(p)
          \/ Fetch(p, FewDocs)
          \/ Filter(p)
          \/ Post(p)
          \/ Record(p)
          \/ Sleep(p)
          \/ LogRun(p)
          \/ LogException(p)
    \/ \E fid \in FeedIds, accs \in AccountLists : feeds_add(fid, accs)
    \/ feeds_edit(1, {2})
    \/ feeds_add_links
    \/ \E fid \in FeedIds : feeds_toggle(fid)
    \/ accounts_disconnect(1)

SpecAdd == InitAdd /\ [][NextAdd]_vars

\* Passes of the scheduler's job, one after the other, over a feed that
\* yields the same MaxGuid items every time, with every status accepted.
\* Feed 1 posts to both accounts; account 2 may be without a token; account 1
\* may have been sent the oldest items before.
ConvergeDocs == [f \in FeedIds |-> {OkDoc(Window(1, MaxGuid))}]

\* passes enough to send MaxGuid items POST_LIMIT at a time, and one more
ConvergePasses == (MaxGuid \div POST_LIMIT) + 2

InitConverge ==
    /\ feeds = [f \in FeedIds |-> FeedRow(f = 1)]
    /\ \E tok \in {"", "tok"} :
          accounts = [a \in AccountIds |-> AccountRow(IF a = 2 THEN tok ELSE "tok")]
    /\ feed_accounts \in {{<<1, 1>>}, {<<1, 1>>, <<1, 2>>}}
    /\ \E seen \in {0, MaxSeen} :
          posted_items = LedgerOf(feed_accounts, [a \in AccountIds |-> IF a = 1 THEN seen ELSE 0])
    /\ run_log = <<>>
    /\ run = [p \in Threads |-> IdleRun]
    /\ acked = [t \in Triples |-> IF HasPosted(posted_items, t[1], t[2], t[3])
                                  THEN 1 ELSE 0]
    /\ passes = 0
    /\ admin = 0
    /\ sched = StartedAt(StoppedScheduler)
    /\ toot = NoToot
    /\ web = NoWeb
    /\ behind = {}

NextConverge ==
    \/ StartRun(0, ConvergePasses)
    \/ LoadAccounts(0)
    \/ Fetch(0, ConvergeDocs)
    \/ Filter(0)
    \/ PostAcked(0)
    \/ Record(0)
    \/ LogRun(0)

\* every step of a pass is taken, and the job fires again
SpecConverge == InitConverge /\ [][NextConverge]_vars /\ WF_vars(NextConverge)

\* The same passes when the server rejects the POST_LIMIT oldest items of the
\* feed on every attempt and would accept the newer ones.
Rejected == 1..POST_LIMIT

\* The job fires without end.  What the passes leave behind that grows with
\* their number is cut: the count of passes and the clock of the schedule
\* stand, the times written to last_fetched_at are told apart up to
\* StarveStamps, and run_log keeps its StarveRows newest rows.  The ledger,
\* the links, the tokens and the pass itself are as in SpecConverge.
StarveStamps == 3

StarveRows == 2

NextStarve ==
    \/ StartRunAgain(0)
    \/ LoadAccounts(0)
    \/ FetchUpTo(0, ConvergeDocs, StarveStamps)
    \/ Filter(0)
    \/ PostRejecting(0, Rejected)
    \/ Record(0)
    \/ LogRunKeeping(0, Locked(0), StarveRows)

SpecStarve == InitConverge /\ [][NextStarve]_vars /\ WF_vars(NextStarve)

\* Requests of two browsers: the login form, logout, the OAuth flow, the
\* admin routes of one click (toggle, delete, disconnect, clear, run now),
\* and the manual pass over feeds of one new item whose status is accepted.
WebDocs == [f \in FeedIds |-> {OkDoc(Window(1, 1))}]

\* browser 1 is the administrator's; whoever sits at browser 2 does not
\* know ADMIN_USERNAME / ADMIN_PASSWORD
Knows(s) == IF s = 1 THEN BOOLEAN ELSE {FALSE}

NextWeb ==
    \/ \E s \in Sessions :
          \/ login_get(s)
          \/ \E t \in FormTokens, creds_ok \in Knows(s) : login_post(s, t, creds_ok)
          \/ logout(s)
          \/ admin_page(s)
          \/ \E t \in FormTokens : accounts_connect(s, t)
          \/ \E registered \in BOOLEAN : accounts_connect_answer(s, registered)
          \/ \E state \in 0..MaxStates :
                \/ oauth_callback(s, 1, state)
                \/ oauth_callback_refused(s, 1, state)
          \/ oauth_callback_refused(s, 0, 0)
          \/ \E granted \in BOOLEAN : oauth_token(s, granted)
          \/ \E aid \in AccountIds : oauth_existing(s, aid)
          \/ oauth_account(s)
          \/ oauth_state(s)
          \/ admin_required(s) /\ \E fid \in FeedIds : feeds_toggle(fid) \/ feeds_delete(fid)
          \/ admin_required(s) /\ \E aid \in AccountIds : accounts_disconnect(aid)
          \/ admin_required(s) /\ log_clear
          \/ locked_request(s)
          \/ \E r \in LockedRoutes : locked_answer(s, r[1], r[2])
          \/ run_now(s, 1)
    \/ run_job_manual
    \/ LoadAccounts(1)
    \/ Fetch(1, WebDocs)
    \/ Filter(1)
    \/ PostAcked(1)
    \/ Record(1)
    \/ Sleep(1)
    \/ LogRun(1)

\* Two new feeds, feed 2 not active; account 1 is connected and feed 1 posts
\* to it, feed 2 to no account yet.  The account id 2 has not been given out
\* yet.
InitWeb ==
    /\ feeds = [f \in FeedIds |-> FeedRow(f = 1)]
    /\ accounts = [a \in AccountIds |->
                     IF a = 1 THEN AccountRow("tok") ELSE NeverAccount]
    /\ feed_accounts = {<<1, 1>>}
    /\ posted_items = <<>>
    /\ run_log = <<>>
    /\ run = [p \in Threads |-> IdleRun]
    /\ acked = [t \in Triples |-> IF HasPosted(posted_items, t[1], t[2], t[3])
                                  THEN 1 ELSE 0]
    /\ passes = 0
    /\ admin = 0
    /\ sched = StartedAt(StoppedScheduler)
    /\ toot = NoToot
    /\ web = NoWeb
    /\ behind = {}

SpecWeb == InitWeb /\ [][NextWeb]_vars

(* ------------------------------------------------------------------ *)
(* History of a pass, read by the properties below                    *)
(* ------------------------------------------------------------------ *)

\* the publish calls of thread p whose response has been handled
Handled(p) ==
    IF run[p].pc = "resp" THEN 1..(Len(run[p].calls) - 1) ELSE DOMAIN run[p].calls

\* the (feed, account) pair of thread p's pass that made its i-th publish call
PairIndexOf(p, i) == run[p].calls[i].pair

CallsOfPair(p, k) == {i \in DOMAIN run[p].calls : PairIndexOf(p, i) = k}

\* the pass has left the pair's item loop
PairDone(p, k) == k < Len(run[p].pairs) \/ run[p].pc \notin {"post", "resp"}

\* execute_feed_run has returned to run_job
Returned(p) == run[p].pc = "log"

TripleOf(c) == <<c.feed, c.acc, c.guid>>

RowCount(tbl, t) ==
    Cardinality({i \in DOMAIN tbl :
        tbl[i].feed_id = t[1] /\ tbl[i].account_id = t[2] /\ tbl[i].item_guid = t[3]})

FailedFetches(p) == {k \in DOMAIN run[p].fetchlog : ~run[p].fetchlog[k].ok}

RECURSIVE SumExcess(_)
SumExcess(pairs) ==
    IF pairs = <<>> THEN 0
    ELSE Max(0, Cardinality(Head(pairs).fresh) - POST_LIMIT) + SumExcess(Tail(pairs))

RECURSIVE SumFresh(_)
SumFresh(pairs) ==
    IF pairs = <<>> THEN 0
    ELSE Cardinality(Head(pairs).fresh) + SumFresh(Tail(pairs))

(* ------------------------------------------------------------------ *)
(* Properties                                                         *)
(* ------------------------------------------------------------------ *)

\* C1: every publish call of a pass is for an item that had no posted_items
\* row for its (feed, account, guid) in the database when the pass filtered
\* that pair, and the pass's posted count counts only such calls.
C1_PublishesOnlyUnseen ==
    \A p \in Threads :
        /\ \A i \in DOMAIN run[p].calls :
              run[p].calls[i].pos \in run[p].pairs[PairIndexOf(p, i)].absent
        /\ run[p].posted <=
              Cardinality({i \in Handled(p) :
                  /\ run[p].calls[i].resp = "id"
                  /\ run[p].calls[i].pos \in run[p].pairs[PairIndexOf(p, i)].absent})

\* C1 witness: a returned pass that posted from a fetch holding items already
\* in the ledger for the pair and items not yet there
C1_Witness ==
    /\ Returned(0)
    /\ run[0].posted >= 1
    /\ \E k \in DOMAIN run[0].pairs :
          /\ run[0].pairs[k].fresh # {}
          /\ CallsOfPair(0, k) # {}
          /\ \E i \in DOMAIN run[0].items : i \notin run[0].pairs[k].fresh

\* C2 (as claimed): with passes overlapping, no triple is published twice, no
\* acknowledged triple lacks its ledger row once handled, and every returned
\* pass has its run_log row.
C2_NoDoublePublishNoLoss ==
    /\ \A t \in Triples : acked[t] <= 1
    /\ admin = 0 =>
          \A t \in Triples :
              (/\ acked[t] >= 1
               /\ \A p \in Threads :
                     ~(run[p].pc = "resp" /\ run[p].resp = "id"
                       /\ TripleOf(run[p].calls[Len(run[p].calls)]) = t))
              => HasPosted(posted_items, t[1], t[2], t[3])
    /\ admin = 0 =>
          Len(run_log) + Cardinality({p \in Threads : run[p].pc # "idle"}) = passes

\* the parts of C2 that do hold: no ledger row and no run record is lost
C2_NoLoss ==
    /\ admin = 0 =>
          \A t \in Triples :
              (/\ acked[t] >= 1
               /\ \A p \in Threads :
                     ~(run[p].pc = "resp" /\ run[p].resp = "id"
                       /\ TripleOf(run[p].calls[Len(run[p].calls)]) = t))
              => HasPosted(posted_items, t[1], t[2], t[3])
    /\ admin = 0 =>
          Len(run_log) + Cardinality({p \in Threads : run[p].pc # "idle"}) = passes

\* C3 (as claimed): a pass makes at most one publish call per guid for a
\* (feed, account) pair, whatever the fetch returned.
C3_OneCallPerGuid ==
    \A p \in Threads :
        \A i, j \in DOMAIN run[p].calls :
            (i # j /\ run[p].calls[i].feed = run[p].calls[j].feed
                   /\ run[p].calls[i].acc = run[p].calls[j].acc)
            => run[p].calls[i].guid # run[p].calls[j].guid

\* C4: posted_items never holds two rows with the same (feed_id, account_id,
\* item_guid).
C4_LedgerUnique ==
    \A i, j \in DOMAIN posted_items :
        (/\ posted_items[i].feed_id = posted_items[j].feed_id
         /\ posted_items[i].account_id = posted_items[j].account_id
         /\ posted_items[i].item_guid = posted_items[j].item_guid) => i = j

\* C4 witness: two acknowledged publishes of one triple, both handled, and
\* one ledger row for it
C4_Witness ==
    \E t \in Triples :
        /\ acked[t] >= 2
        /\ RowCount(posted_items, t) = 1
        /\ \A p \in Threads : run[p].pc # "resp"

\* C5: every posted_items row is for a triple some publish call was
\* acknowledged for with a remote id.
C5_LedgerRowsWereAcked ==
    \A i \in DOMAIN posted_items :
        acked[<<posted_items[i].feed_id, posted_items[i].account_id,
                posted_items[i].item_guid>>] >= 1

\* C5 witness: a publish call failed, its response has been handled, and the
\* ledger holds no row for its triple
C5_Witness ==
    \E p \in Threads :
        /\ run[p].errors >= 1
        /\ \E i \in Handled(p) :
              /\ run[p].calls[i].resp # "id"
              /\ acked[TripleOf(run[p].calls[i])] = 0
              /\ RowCount(posted_items, TripleOf(run[p].calls[i])) = 0

\* C6: recording a triple twice is idempotent: neither insert raises, the
\* second changes nothing, the ledger holds one row for the triple and
\* reports it as posted after each; in a pass, every acknowledged call that
\* has been handled is counted as posted and has exactly one row.
C6_RecordIdempotent ==
    /\ (\A p \in Threads : run[p].pc \in {"idle", "log"}) =>
       \A t \in Triples :
          LET r1 == InsertOrIgnore(posted_items, t[1], t[2], t[3])
              r2 == InsertOrIgnore(r1.rows, t[1], t[2], t[3])
          IN  /\ ~r1.raised /\ ~r2.raised
              /\ r2.rows = r1.rows
              /\ RowCount(r1.rows, t) = 1 /\ RowCount(r2.rows, t) = 1
              /\ HasPosted(r1.rows, t[1], t[2], t[3])
              /\ HasPosted(r2.rows, t[1], t[2], t[3])
    /\ \A p \in Threads :
          /\ \A i \in Handled(p) :
                run[p].calls[i].resp = "id"
                => RowCount(posted_items, TripleOf(run[p].calls[i])) = 1
          /\ run[p].posted =
                Cardinality({i \in Handled(p) : run[p].calls[i].resp = "id"})

\* C6 witness: one pass recorded the same triple twice
C6_Witness ==
    \E i, j \in Handled(0) :
        /\ i < j
        /\ run[0].calls[i].resp = "id" /\ run[0].calls[j].resp = "id"
        /\ TripleOf(run[0].calls[i]) = TripleOf(run[0].calls[j])
        /\ RowCount(posted_items, TripleOf(run[0].calls[i])) = 1
        /\ run[0].posted = 2

\* C7: the skipped count is the sum, over the pairs the pass has filtered, of
\* max(0, unseen - POST_LIMIT); the error count is the failed publish calls
\* plus the failed fetches, so skipping adds nothing to it.
C7_SkippedIsExcess ==
    \A p \in Threads :
        /\ run[p].skipped = SumExcess(run[p].pairs)
        /\ run[p].errors =
              Cardinality({i \in Handled(p) : run[p].calls[i].resp # "id"})
              + Cardinality(FailedFetches(p))

\* C7 witness: a returned pass in which two pairs exceeded the cap and one
\* did not
C7_Witness ==
    /\ Returned(0)
    /\ run[0].skipped >= 3
    /\ \E k1, k2, k3 \in DOMAIN run[0].pairs :
          /\ k1 # k2
          /\ Cardinality(run[0].pairs[k1].fresh) > POST_LIMIT
          /\ Cardinality(run[0].pairs[k2].fresh) > POST_LIMIT
          /\ Cardinality(run[0].pairs[k3].fresh) < POST_LIMIT

\* C8: within a pair the m-th publish call is for the m-th item from the end
\* of the fetched list among those unseen: oldest unseen first.
C8_OldestFirst ==
    \A p \in Threads :
        \A i \in DOMAIN run[p].calls :
            LET k     == PairIndexOf(p, i)
                fresh == run[p].pairs[k].fresh
                pos   == run[p].calls[i].pos
            IN  /\ pos \in fresh
                /\ Cardinality({u \in fresh : u > pos}) = i - run[p].pairs[k].first

\* C8 witness: the feed yielded [3, 2, 1], all unseen, and the calls were for
\* 1, 2, 3 in that order
C8_Witness ==
    /\ Len(run[0].items) = 3
    /\ \A i \in 1..3 : run[0].items[i].guid = 4 - i
    /\ Len(run[0].calls) = 3
    /\ \A i \in 1..3 : run[0].calls[i].guid = i
    /\ run[0].pairs[1].fresh = {1, 2, 3}

\* C9: a finished pair with n unseen items got min(n, POST_LIMIT) publish
\* calls, for the items nearest the end of the fetched list, and the skipped
\* count is the unseen items that got no call.
C9_CapPerPair ==
    \A p \in Threads :
        /\ \A k \in DOMAIN run[p].pairs :
              LET fresh == run[p].pairs[k].fresh
                  n     == Cardinality(fresh)
                  sent  == {run[p].calls[i].pos : i \in CallsOfPair(p, k)}
              IN  /\ Cardinality(CallsOfPair(p, k)) <= POST_LIMIT
                  /\ PairDone(p, k) =>
                        /\ Cardinality(CallsOfPair(p, k)) =
                              (IF n <= POST_LIMIT THEN n ELSE POST_LIMIT)
                        /\ Cardinality(sent) = Cardinality(CallsOfPair(p, k))
                        /\ \A u \in fresh, v \in sent : u \notin sent => u < v
        /\ (\A k \in DOMAIN run[p].pairs : PairDone(p, k)) =>
              run[p].skipped + Len(run[p].calls) =
                 SumFresh(run[p].pairs)

\* C9 witness: a finished pair had more unseen items than the cap
C9_Witness ==
    \E k \in DOMAIN run[0].pairs :
        /\ PairDone(0, k)
        /\ Cardinality(run[0].pairs[k].fresh) = POST_LIMIT + 2
        /\ Cardinality(CallsOfPair(0, k)) = POST_LIMIT
        /\ run[0].skipped = 2

\* C10: a failed fetch adds exactly 1 to the error count whatever the number
\* of linked accounts, the feed gets no publish call, and the pass still
\* fetches every later active feed that has a credentialed account.
C10_FetchFailureIsolated ==
    \A p \in Threads :
        /\ run[p].errors - Cardinality({i \in Handled(p) : run[p].calls[i].resp # "id"})
              = Cardinality(FailedFetches(p))
        /\ \A k \in FailedFetches(p) :
              \A i \in DOMAIN run[p].calls :
                  run[p].calls[i].feed # run[p].fetchlog[k].feed
        /\ Returned(p) =>
              \A f \in FeedIds :
                  (feeds[f].present /\ feeds[f].active /\ LinkedAccounts(Database, f) # <<>>)
                  => \E k \in DOMAIN run[p].fetchlog : run[p].fetchlog[k].feed = f

\* C10 witness: feed 1, linked to two accounts, failed to fetch; the pass
\* counted one error and went on to publish feed 2's items
C10_Witness ==
    /\ Returned(0)
    /\ Len(run[0].fetchlog) = 2
    /\ ~run[0].fetchlog[1].ok /\ run[0].fetchlog[2].ok
    /\ Len(LinkedAccounts(Database, run[0].fetchlog[1].feed)) = 2
    /\ run[0].errors = 1
    /\ run[0].posted >= 1

\* the detail lines of thread p's pass that report a failure
FailureLines(p) ==
    {i \in DOMAIN run[p].lines : run[p].lines[i].kind \in {"fetchfail", "api", "exc"}}

\* the (feed, account) pairs with a credential, as the tables hold them now
Credentialed(f) ==
    {a \in AccountIds : /\ accounts[a].present
                        /\ <<f, a>> \in feed_accounts
                        /\ accounts[a].access_token # ""}

\* C11: a publish call that fails (an exception, or a response without an id)
\* adds exactly 1 to the error count and one failure line naming it, leaves no
\* ledger row, and the pass goes on: to the next item of the pair, and, by
\* the time it returns, through every account of every fetched feed and every
\* active feed.
C11_PublishFailureContained ==
    \A p \in Threads :
        LET failed == {i \in Handled(p) : run[p].calls[i].resp # "id"}
        IN  /\ run[p].errors = Cardinality(failed) + Cardinality(FailedFetches(p))
            /\ Cardinality({i \in DOMAIN run[p].lines :
                               run[p].lines[i].kind \in {"api", "exc"}})
                  = Cardinality(failed)
            /\ \A i \in failed :
                  LET c == run[p].calls[i]
                      k == c.pair
                      n == Cardinality(run[p].pairs[k].fresh)
                      m == IF n <= POST_LIMIT THEN n ELSE POST_LIMIT
                  IN  /\ \E l \in DOMAIN run[p].lines :
                            run[p].lines[l] =
                               Line(IF c.resp = "error" THEN "api" ELSE "exc",
                                    c.feed, c.acc, c.guid)
                      /\ acked[TripleOf(c)] = 0
                            => ~HasPosted(posted_items, c.feed, c.acc, c.guid)
                      /\ i - run[p].pairs[k].first + 1 < m
                            => \/ /\ i + 1 \in DOMAIN run[p].calls
                                  /\ run[p].calls[i + 1].pair = k
                               \/ /\ i = Len(run[p].calls)
                                  /\ run[p].pc = "post"
                                  /\ k = Len(run[p].pairs)
            /\ Returned(p) =>
                  /\ \A f \in FeedIds :
                        (feeds[f].active /\ Credentialed(f) # {})
                        => \E k \in DOMAIN run[p].fetchlog : run[p].fetchlog[k].feed = f
                  /\ \A k \in DOMAIN run[p].fetchlog :
                        run[p].fetchlog[k].ok =>
                           \A a \in Credentialed(run[p].fetchlog[k].feed) :
                              \E j \in DOMAIN run[p].pairs :
                                 /\ run[p].pairs[j].feed = run[p].fetchlog[k].feed
                                 /\ run[p].pairs[j].acc = a

\* C11 witness: a returned pass whose one failed call was followed by a call
\* for the next item of the same pair, by calls for another account and by
\* calls for another feed
C11_Witness ==
    /\ Returned(0)
    /\ run[0].errors = 1
    /\ \E i \in DOMAIN run[0].calls :
          /\ run[0].calls[i].resp # "id"
          /\ i + 1 \in DOMAIN run[0].calls
          /\ run[0].calls[i + 1].pair = run[0].calls[i].pair
          /\ run[0].calls[i + 1].resp = "id"
          /\ \E j \in DOMAIN run[0].calls :
                j > i /\ run[0].calls[j].feed = run[0].calls[i].feed
                      /\ run[0].calls[j].acc # run[0].calls[i].acc
          /\ \E j \in DOMAIN run[0].calls :
                j > i /\ run[0].calls[j].feed # run[0].calls[i].feed

\* C12 (as claimed): every publish call acknowledged with an id is counted in
\* the pass's posted count and never in its error count, whether or not the
\* ledger insert that follows it succeeds.
C12_AckedCountsAsPosted ==
    \A p \in Threads :
        /\ run[p].posted =
              Cardinality({i \in Handled(p) : run[p].calls[i].resp = "id"})
        /\ run[p].errors =
              Cardinality({i \in Handled(p) : run[p].calls[i].resp # "id"})
              + Cardinality(FailedFetches(p))

\* the part of C12 that does hold: an acknowledged call whose insert raised
\* (reported by an exception line) left no ledger row
C12_FailedInsertLeavesNoRow ==
    \A p \in Threads :
        \A i \in Handled(p) :
            LET c == run[p].calls[i]
            IN  (/\ c.resp = "id"
                 /\ \E l \in DOMAIN run[p].lines :
                       run[p].lines[l] = Line("exc", c.feed, c.acc, c.guid))
                => ~HasPosted(posted_items, c.feed, c.acc, c.guid)

\* C13: an account whose access_token is empty is never the target of a
\* publish call and is never taken up as a pair, whatever feeds it is linked to.
C13_NoCredentialNoPublish ==
    \A p \in Threads :
        /\ \A i \in DOMAIN run[p].calls :
              accounts[run[p].calls[i].acc].access_token # ""
        /\ \A k \in DOMAIN run[p].pairs :
              accounts[run[p].pairs[k].acc].access_token # ""

\* C13 witness: a returned pass published an active feed's items to account 1
\* while account 2, linked to the same feed, has an empty access_token
C13_Witness ==
    /\ Returned(0)
    /\ accounts[2].access_token = ""
    /\ \E f \in FeedIds :
          /\ feeds[f].active
          /\ <<f, 1>> \in feed_accounts /\ <<f, 2>> \in feed_accounts
          /\ \E i \in DOMAIN run[0].calls :
                run[0].calls[i].feed = f /\ run[0].calls[i].acc = 1
                   /\ run[0].calls[i].resp = "id"

\* C14: a feed the pass found without a linked credentialed account gets one
\* 'no accounts' line and nothing else: it is not fetched, its
\* last_fetched_at and last_status stay as they were (never fetched,
\* 'pending'), no publish call is made for it, and the error count still
\* holds only failed fetches and failed publish calls.
C14_NoAccountsIsNotAnError ==
    \A p \in Threads :
        /\ \A f \in FeedIds :
              LET noacc == {l \in DOMAIN run[p].lines :
                               run[p].lines[l] = Line("noacc", f, 0, 0)}
              IN  /\ Cardinality(noacc) <= 1
                  /\ noacc # {} =>
                        /\ \A k \in DOMAIN run[p].fetchlog : run[p].fetchlog[k].feed # f
                        /\ \A i \in DOMAIN run[p].calls : run[p].calls[i].feed # f
                        /\ feeds[f].last_fetched_at = 0
                        /\ feeds[f].last_status = "pending"
                  /\ (Returned(p) /\ feeds[f].active /\ Credentialed(f) = {})
                        => Cardinality(noacc) = 1
        /\ run[p].errors =
              Cardinality({i \in Handled(p) : run[p].calls[i].resp # "id"})
              + Cardinality(FailedFetches(p))
        /\ run[p].faults = run[p].errors

\* C14 witness: a returned pass skipped feed 1, whose only link is to an
\* account without a credential, reported it once, counted no error, and
\* published feed 2
C14_Witness ==
    /\ Returned(0)
    /\ feeds[1].active /\ feeds[2].active
    /\ accounts[2].access_token = ""
    /\ {a \in AccountIds : <<1, a>> \in feed_accounts} = {2}
    /\ run[0].lines[1] = Line("noacc", 1, 0, 0)
    /\ feeds[1].last_fetched_at = 0
    /\ run[0].errors = 0
    /\ \E i \in DOMAIN run[0].calls : run[0].calls[i].feed = 2

\* C15: once a pass has fetched a feed, the feed's row says so: last_status
\* is 'ok' if the fetch gave at least one item and 'error' if not, and
\* last_fetched_at is set; the row is already written when the first publish
\* call for the feed is made and stays so whatever the calls return.  Until
\* a pass has been logged, a feed no pass has fetched is still 'pending'.
C15_FetchStatusRecorded ==
    /\ \A p \in Threads :
          /\ \A k \in DOMAIN run[p].fetchlog :
                LET f == run[p].fetchlog[k].feed
                IN  /\ feeds[f].last_status =
                          (IF run[p].fetchlog[k].ok THEN "ok" ELSE "error")
                    /\ feeds[f].last_fetched_at = 1
          /\ \A i \in DOMAIN run[p].calls :
                /\ feeds[run[p].calls[i].feed].last_status = "ok"
                /\ feeds[run[p].calls[i].feed].last_fetched_at = 1
    /\ \A f \in FeedIds :
          (/\ run_log = <<>>
           /\ \A p \in Threads : \A k \in DOMAIN run[p].fetchlog :
                 run[p].fetchlog[k].feed # f)
          => feeds[f].last_status = "pending" /\ feeds[f].last_fetched_at = 0

\* C15 witness: feed 1 failed to fetch and is marked 'error'; feed 2 was
\* fetched, its publish call failed, and it is marked 'ok' all the same
C15_Witness ==
    /\ Returned(0)
    /\ feeds[1].last_status = "error"
    /\ feeds[2].last_status = "ok"
    /\ run[0].posted = 0
    /\ \E i \in DOMAIN run[0].calls :
          run[0].calls[i].feed = 2 /\ run[0].calls[i].resp = "exception"

\* C16: a pass has slept API_DELAY once for every publish call whose response
\* it has handled, failed or not; so when a call is made, every earlier call
\* of the pass has been followed by its delay.
C16_DelayAfterEveryCall ==
    \A p \in Threads :
        /\ run[p].sleeps = Cardinality(Handled(p))
        /\ run[p].pc = "resp" => run[p].sleeps = Len(run[p].calls) - 1

\* C16 witness: a call failed, the pass slept, and then made its next call
C16_Witness ==
    /\ run[0].pc = "resp"
    /\ Len(run[0].calls) = 3
    /\ run[0].calls[2].resp = "error"
    /\ run[0].calls[3].resp = "id"
    /\ run[0].sleeps = 2

\* C17: a step that deactivates a feed leaves posted_items, feed_accounts
\* and run_log as they were; a pass that starts while a feed is inactive does
\* not enumerate it; and a pass over a feed that was inactive for a while (and
\* reactivated) still publishes only items for which its lookup in the
\* ledger found no row.
C17_DeactivationKeepsHistory ==
    /\ [][(\E f \in FeedIds : /\ feeds[f].present /\ feeds'[f].present
                               /\ feeds[f].active /\ ~feeds'[f].active)
           => /\ posted_items' = posted_items
              /\ feed_accounts' = feed_accounts
              /\ run_log' = run_log]_vars
    /\ [][\A p \in Threads :
             (run[p].pc = "idle" /\ run'[p].pc # "idle")
             => \A f \in FeedIds :
                   ~feeds[f].active
                   => \A k \in DOMAIN run'[p].feedq : run'[p].feedq[k] # f]_vars
    /\ [](\A p \in Threads : \A i \in DOMAIN run[p].calls :
             run[p].calls[i].pos \in run[p].pairs[run[p].calls[i].pair].fresh)

\* C17 witness: feed 1 was deactivated after a pass had published and logged
\* its item; the ledger row, the link and the run record are still there, and
\* the pass started afterwards found no active feed
C17_Witness ==
    /\ admin = 1
    /\ feeds[1].present /\ ~feeds[1].active
    /\ HasPosted(posted_items, 1, 1, 1)
    /\ <<1, 1>> \in feed_accounts
    /\ Len(run_log) = 1 /\ run_log[1].posted = 1
    /\ \E p \in Threads :
          Returned(p) /\ run[p].lines = <<Line("nofeeds", 0, 0, 0)>>

\* the other half of C17's case: feed 2, inactive at first with its item in
\* the ledger, was reactivated, and a pass fetched it and published nothing
C17_Reactivated ==
    /\ admin = 1
    /\ feeds[2].present /\ feeds[2].active
    /\ \E p \in Threads :
          /\ Returned(p)
          /\ \E k \in DOMAIN run[p].fetchlog :
                run[p].fetchlog[k].feed = 2 /\ run[p].fetchlog[k].ok
          /\ \A i \in DOMAIN run[p].calls : run[p].calls[i].feed # 2
          /\ HasPosted(posted_items, 2, 2, 1)

\* C18: a deleted feed has no row left in feed_accounts or posted_items, in
\* any later state (a pass still working on it cannot add one), and the step
\* that deletes it leaves the links and ledger rows of the other feeds, and
\* the accounts, as they were.
C18_FeedDeleteCascades ==
    /\ [](\A f \in FeedIds :
             ~feeds[f].present
             => /\ \A l \in feed_accounts : l[1] # f
                /\ \A i \in DOMAIN posted_items : posted_items[i].feed_id # f)
    /\ [][\A f \in FeedIds :
             (feeds[f].present /\ ~feeds'[f].present)
             => /\ SelectSeq(posted_items', LAMBDA r : r.feed_id # f)
                      = SelectSeq(posted_items, LAMBDA r : r.feed_id # f)
                /\ {l \in feed_accounts' : l[1] # f} = {l \in feed_accounts : l[1] # f}
                /\ accounts' = accounts
                /\ \A g \in FeedIds \ {f} : feeds'[g] = feeds[g]]_vars

\* C18 witness: feed 2, which had a link and a ledger row, is deleted; feed 1
\* still has its link and the ledger row a pass wrote for it
C18_Witness ==
    /\ ~feeds[2].present
    /\ feeds[1].present
    /\ <<1, 1>> \in feed_accounts
    /\ HasPosted(posted_items, 1, 1, 1)
    /\ ~HasPosted(posted_items, 2, 2, 1)
    /\ <<2, 2>> \notin feed_accounts

\* C19: a pass that has completed (execute_feed_run has returned its
\* counts) ends by appending one run_log row that carries its
\* trigger ('auto' for the scheduler's thread, 'manual' for run_now's) and
\* its posted, skipped and error counts; no step of a pass changes or drops a
\* row already there; rows are added by ending passes only.
C19_OneRecordPerPass ==
    [][/\ \A p \in Threads :
            (run[p].pc = "log" /\ run'[p].pc = "idle")
            => /\ Len(run_log') = Len(run_log) + 1
               /\ run_log'[Len(run_log')].triggered = (IF p = 0 THEN "auto" ELSE "manual")
               /\ run_log'[Len(run_log')].posted = run[p].posted
               /\ run_log'[Len(run_log')].skipped = run[p].skipped
               /\ run_log'[Len(run_log')].errors = run[p].errors
       /\ run' # run
            => /\ Len(run_log') >= Len(run_log)
               /\ \A i \in DOMAIN run_log : run_log'[i] = run_log[i]
       /\ Len(run_log') > Len(run_log)
            => \E p \in Threads : run[p].pc = "log" /\ run'[p].pc = "idle"]_vars

\* C19 witness: the manual pass that published one item and the timer's
\* pass that found no active feed each left their record
C19_Witness ==
    /\ Len(run_log) = 2
    /\ \A p \in Threads : run[p].pc = "idle"
    /\ \E i, j \in DOMAIN run_log :
          /\ run_log[i].triggered = "manual" /\ run_log[i].posted = 1
          /\ run_log[j].triggered = "auto"
          /\ run_log[j].summary = <<Line("nofeeds", 0, 0, 0)>>
          /\ run_log[j].posted = 0 /\ run_log[j].skipped = 0 /\ run_log[j].errors = 0

\* C20 (as claimed): every failure a pass has met (a failed fetch, a failed
\* publish call, a failed database statement) is in its error count and has
\* its detail line.
C20_EveryFailureCounted ==
    \A p \in Threads :
        /\ run[p].errors = run[p].faults
        /\ Cardinality(FailureLines(p)) = run[p].faults

\* C21: a pass that has started ends; on the way it fetches a feed at most
\* once, only feeds that were active when it started, and makes at most
\* POST_LIMIT publish calls for a (feed, account) pair, each pair taken once.
C21_PassTerminates ==
    /\ [](run[0].pc # "idle" => <>(run[0].pc = "idle"))
    /\ [](\A p \in Threads :
             /\ \A j, k \in DOMAIN run[p].fetchlog :
                   j # k => run[p].fetchlog[j].feed # run[p].fetchlog[k].feed
             /\ \A k \in DOMAIN run[p].fetchlog : feeds[run[p].fetchlog[k].feed].active
             /\ \A j, k \in DOMAIN run[p].pairs :
                   j # k => \/ run[p].pairs[j].feed # run[p].pairs[k].feed
                            \/ run[p].pairs[j].acc # run[p].pairs[k].acc
             /\ \A k \in DOMAIN run[p].pairs :
                   Cardinality(CallsOfPair(p, k)) <= POST_LIMIT)

\* C21 witness: a pass over two feeds and two accounts reached its end after
\* a full batch of POST_LIMIT calls, a failed call and a failed fetch
C21_Witness ==
    /\ Returned(0)
    /\ Len(run[0].fetchlog) = 2
    /\ Len(run[0].pairs) >= 2
    /\ \E k \in DOMAIN run[0].pairs : Cardinality(CallsOfPair(0, k)) = POST_LIMIT
    /\ Failed(run[0].calls) # {}
    /\ FailedFetches(0) # {}

\* C22: within a pair no list position is called twice, whether its call
\* succeeded or failed: the positions called run strictly from the end of the
\* fetched list towards its start, and a finished pair has had exactly one
\* call for each item selected for it.
C22_NoRetry ==
    \A p \in Threads :
        /\ \A i, j \in DOMAIN run[p].calls :
              (i < j /\ run[p].calls[i].pair = run[p].calls[j].pair)
              => run[p].calls[j].pos < run[p].calls[i].pos
        /\ \A k \in DOMAIN run[p].pairs :
              PairDone(p, k) =>
                 LET n == Cardinality(run[p].pairs[k].fresh)
                 IN  Cardinality(CallsOfPair(p, k)) =
                        (IF n <= POST_LIMIT THEN n ELSE POST_LIMIT)
        /\ run[p].pc = "post" =>
              \A i \in DOMAIN run[p].calls :
                  run[p].calls[i].pair = Len(run[p].pairs)
                  => Head(run[p].postq).pos < run[p].calls[i].pos

\* C22 witness: the first call of a pair failed and the pair went on to the
\* other items, ending with one call per selected item
C22_Witness ==
    \E k \in DOMAIN run[0].pairs :
        /\ PairDone(0, k)
        /\ Cardinality(run[0].pairs[k].fresh) = 3
        /\ Cardinality(CallsOfPair(0, k)) = 3
        /\ run[0].calls[run[0].pairs[k].first].resp = "exception"
        /\ run[0].posted = 2 /\ run[0].errors = 1

\* C23: what a pass sends to an account depends on that account's ledger rows
\* only.  An acknowledged call leaves its row under its own account; account
\* 2, whose ledger is empty before the pass, has every fetched item unseen
\* whatever rows account 1 has; and a finished pair has had
\* min(unseen, POST_LIMIT) calls whatever happened to the calls of the pairs
\* before it.
C23_AccountsIndependent ==
    \A p \in Threads :
        \A k \in DOMAIN run[p].pairs :
            LET pr == run[p].pairs[k]
                n  == Cardinality(pr.fresh)
            IN  /\ \A i \in DOMAIN run[p].calls :
                      (run[p].calls[i].pair = k /\ i \in Handled(p)
                         /\ run[p].calls[i].resp = "id")
                      => \E r \in DOMAIN posted_items :
                            posted_items[r] = [feed_id |-> pr.feed, account_id |-> pr.acc,
                                               item_guid |-> run[p].calls[i].guid]
                /\ pr.acc = 2 => pr.fresh = 1..pr.n
                /\ PairDone(p, k) =>
                      /\ Cardinality(CallsOfPair(p, k)) =
                            (IF n <= POST_LIMIT THEN n ELSE POST_LIMIT)
                      /\ pr.acc = 2 =>
                            Cardinality(CallsOfPair(p, k)) =
                               (IF pr.n <= POST_LIMIT THEN pr.n ELSE POST_LIMIT)

\* C23 witness: feed 1 yielded [3, 2, 1]; account 1 already had 1 and 2 and
\* its call for 3 failed; account 2 was then sent 1, 2 and 3
C23_Witness ==
    /\ Returned(0)
    /\ HasPosted(posted_items, 1, 1, 1) /\ HasPosted(posted_items, 1, 1, 2)
    /\ ~HasPosted(posted_items, 1, 1, 3)
    /\ \E j, k \in DOMAIN run[0].pairs :
          /\ run[0].pairs[j].feed = 1 /\ run[0].pairs[j].acc = 1
          /\ run[0].pairs[k].feed = 1 /\ run[0].pairs[k].acc = 2
          /\ run[0].pairs[j].n = 3 /\ run[0].pairs[j].fresh = {1}
          /\ \A i \in CallsOfPair(0, j) : run[0].calls[i].resp # "id"
          /\ Cardinality(CallsOfPair(0, k)) = 3
          /\ \A i \in CallsOfPair(0, k) : run[0].calls[i].resp = "id"
    /\ \A g \in 1..3 : HasPosted(posted_items, 1, 2, g)

\* C24: after any number of start_scheduler calls the job store holds exactly
\* one job, and it is the one named 'feed_run': a registration replaces the
\* job of the same name.  Before the first call there is none.
C24_OneFeedRunJob ==
    /\ sched.starts = 0 => sched.jobs = <<>> /\ ~sched.running
    /\ sched.starts > 0 =>
          /\ Len(sched.jobs) = 1
          /\ sched.jobs[1].id = "feed_run"
          /\ sched.running

\* the job was registered again, later, and its fire time is the later one
C24_Witness ==
    /\ sched.starts = MaxStarts
    /\ passes = 0
    /\ Len(sched.jobs) = 1
    /\ sched.jobs[1].next_run_time > IntervalSecs

\* C25: a step that starts run_now's pass (thread 1 leaves idle) leaves the
\* scheduler, its job and the job's next fire time as they were, and does
\* not touch the timer's pass, whether that pass is running or not.
C25_RunNowKeepsSchedule ==
    [][run[1].pc = "idle" /\ run'[1].pc # "idle" =>
          /\ sched' = sched
          /\ run'[0] = run[0]
          /\ run'[1].pc \in {"feed", "log"}]_vars

\* run_now's pass and the timer's pass both under way, after the timer fired
\* once: the next fire is one interval after that fire
C25_Witness ==
    /\ run[0].pc \notin {"idle"}
    /\ run[1].pc \notin {"idle"}
    /\ sched.jobs[1].next_run_time = 2 * IntervalSecs

\* C26: whatever time remains until the next fire, next_run_info reports
\* seconds remaining >= 0 and a percentage within 0..100 that equals
\* 100 - remaining / intervalSeconds * 100 clamped to that range.
C26_PctWithinRange ==
    sched.info.display = "time" =>
        LET remaining == sched.jobs[1].next_run_time - sched.now
        IN  /\ sched.info.secs >= 0
            /\ sched.info.pct \in 0..100
            /\ sched.info.pct =
                  Max(0, Min(100, Trunc(100 * IntervalSecs - remaining * 100,
                                        IntervalSecs)))

\* C27, as amended: a query before the job has ever fired returns a value
\* (it does not raise).  With no job registered the value is: no display
\* time, timestamp 0, 0 seconds remaining, 100 percent elapsed.  With the
\* job registered it is the job's coming first fire: its time, the seconds
\* left until it, and 100 percent exactly when no second is left.
C27_QueryBeforeFirstFire ==
    sched.info.display # "unasked" /\ passes = 0 =>
        IF sched.jobs = <<>>
        THEN sched.info = [display |-> "dash", ts |-> 0, secs |-> 0, pct |-> 100]
        ELSE /\ sched.info.display = "time"
             /\ sched.info.ts = sched.jobs[1].next_run_time
             /\ sched.info.ts > 0
             /\ sched.info.secs = Max(0, sched.jobs[1].next_run_time - sched.now)
             /\ sched.info.pct = 100 <=> sched.info.secs = 0

\* asked before start_scheduler has registered the job
C27_Witness ==
    /\ sched.info.display = "dash"
    /\ sched.jobs = <<>>
    /\ sched.starts = 0
    /\ passes = 0

\* C27 as stated: before the job is registered or has ever fired the answer
\* is no display time, timestamp 0, 0 seconds remaining, zero progress.
C27_ZeroStateBeforeFirstFire ==
    sched.info.display # "unasked" /\ passes = 0 =>
        sched.info = [display |-> "dash", ts |-> 0, secs |-> 0, pct |-> 0]

\* C28: whatever the title's length, the link's length and the number of
\* valid tags, the text format_toot returns has at most 500 characters.
C28_AtMost500 == toot.asked => Len(toot.body) <= 500

\* the non-title portion of a message: everything but the title
NonTitleLen == Len(FullBody(toot.item, toot.feed_name, toot.hashtags))
               - Len(toot.item.title)

\* C29: when format_toot cuts (the full text is over 490), the result is the
\* header, the title cut to max(10, 490 - length of the non-title portion)
\* characters (whole when it is shorter), one truncation marker, then the
\* whole link when there is one and the two fixed tags with every valid feed
\* tag.
C29_OnlyTitleShrinks ==
    toot.asked /\ Len(FullBody(toot.item, toot.feed_name, toot.hashtags)) > 490 =>
        toot.body = Header(toot.feed_name) \o <<NL, NL>>
                    \o Take(toot.item.title, Max(10, 490 - NonTitleLen))
                    \o <<Ellipsis>>
                    \o Ending(toot.item.link, TagsOf(toot.hashtags))

\* C30: the record a pass stores has as summary the first 40 detail lines of
\* the pass (all of them when there are fewer), in the order the pass made
\* them, while its posted, skipped and error counts are those of the whole
\* pass: every failure line counts, also one beyond the 40th.
C30_SummaryFirst40 ==
    [][\A p \in Threads :
          run[p].pc = "log" /\ run'[p].pc = "idle" =>
             LET row == run_log'[Len(run_log')]
                 all == run[p].lines
             IN  /\ Len(row.summary) = Min(40, Len(all))
                 /\ \A i \in DOMAIN row.summary : row.summary[i] = all[i]
                 /\ row.posted = run[p].posted
                 /\ row.skipped = run[p].skipped
                 /\ row.errors = run[p].errors
                 /\ row.errors = Cardinality({i \in DOMAIN all :
                                     all[i].kind \in {"fetchfail", "api", "exc"}})
                 /\ row.posted = Cardinality({i \in DOMAIN all : all[i].kind = "ok"})]_vars

\* a pass of 45 failures is stored with 40 lines and 45 errors
C30_Witness ==
    /\ run_log # <<>>
    /\ Len(run_log[1].summary) = 40
    /\ run_log[1].errors = 45
    /\ run_log[1].summary[40] = Line("fetchfail", 40, 0, 0)

\* C31: the feeds of a pass are the ones active when it starts.  The list
\* read at the start does not change while the pass runs, every fetch and
\* every publish call of the pass is for a feed of that list, and a pass that
\* starts later reads the feeds active then: a feed added or activated in
\* between is left to it.
C31_FeedSetFixedAtStart ==
    [][\A p \in Threads :
          /\ run[p].pc = "idle" /\ run'[p].pc # "idle"
                => run'[p].snapshot = ActiveFeeds
          /\ run[p].pc # "idle" /\ run'[p].pc # "idle"
                => run'[p].snapshot = run[p].snapshot
          /\ Len(run'[p].fetchlog) > Len(run[p].fetchlog)
                => \E i \in DOMAIN run[p].snapshot :
                      run[p].snapshot[i] = run'[p].fetchlog[Len(run'[p].fetchlog)].feed
          /\ Len(run'[p].calls) > Len(run[p].calls)
                => \E i \in DOMAIN run[p].snapshot :
                      run[p].snapshot[i] = run'[p].calls[Len(run'[p].calls)].feed
          /\ run[p].pc = "feed" /\ run'[p].pc # "feed"
                => \E i \in DOMAIN run[p].snapshot : run[p].snapshot[i] = run'[p].feed]_vars

\* feed 2 was added, linked and active, while the timer's pass over feed 1
\* was under way; that pass is through its feeds and has not touched feed 2;
\* the manual pass started after the add has fetched it
C31_Witness ==
    /\ run[0].pc = "log"
    /\ run[0].snapshot = <<1>>
    /\ feeds[2].present /\ feeds[2].active
    /\ <<2, 2>> \in feed_accounts
    /\ \A i \in DOMAIN run[0].fetchlog : run[0].fetchlog[i].feed = 1
    /\ run[1].snapshot = <<1, 2>>
    /\ \E i \in DOMAIN run[1].fetchlog : run[1].fetchlog[i].feed = 2

\* C32: in every state, also when an account is disconnected or a feed is
\* deleted while a pass is under way, every ledger row and every feed-account
\* link names a feed and an account that exist.  A publish call that was in
\* flight when its account or feed went away may be acknowledged, but leaves
\* no ledger row for it.
C32_ReferencesExist ==
    /\ \A i \in DOMAIN posted_items :
          /\ feeds[posted_items[i].feed_id].present
          /\ accounts[posted_items[i].account_id].present
    /\ \A l \in feed_accounts : feeds[l[1]].present /\ accounts[l[2]].present

\* account 1 was disconnected while the call for item 1 of feed 1 was in
\* flight; the call was acknowledged and has been handled; no row was
\* written for it, and the other account's row is where it was
C32_Witness ==
    /\ ~accounts[1].present
    /\ feeds[1].present
    /\ acked[<<1, 1, 1>>] = 1
    /\ \E p \in Threads :
          /\ run[p].calls # <<>>
          /\ run[p].calls[1].resp = "id"
          /\ 1 \in Handled(p)
    /\ ~HasPosted(posted_items, 1, 1, 1)
    /\ HasPosted(posted_items, 2, 2, 1)

\* C33: when execute_feed_run has returned, posted + errors is the number of
\* publish calls the pass made plus the number of feeds whose fetch failed,
\* and posted is the number of calls that were acknowledged with a remote id
\* and whose ledger insert did not raise.  The record run_job stores carries
\* these counts.
C33_CountsAddUp ==
    \A p \in Threads :
        run[p].pc = "log" =>
            /\ run[p].posted + run[p].errors =
                  Len(run[p].calls) + Cardinality(FailedFetches(p))
            /\ run[p].posted =
                  Cardinality({i \in DOMAIN run[p].calls :
                                  /\ run[p].calls[i].resp = "id"
                                  /\ run[p].calls[i].insert = "done"})

\* a returned pass with one acknowledged call whose
\* insert raised (its account had been disconnected): one error, nothing posted
C33_Witness ==
    \E p \in Threads :
        /\ run[p].pc = "log"
        /\ Len(run[p].calls) = 1
        /\ run[p].calls[1].resp = "id"
        /\ run[p].calls[1].insert = "raised"
        /\ run[p].posted = 0
        /\ run[p].errors = 1

\* every item of the feed has its ledger row for every credentialed account
\* the feed is linked to
AllLedgered ==
    \A a \in AccountIds :
        (<<1, a>> \in feed_accounts /\ accounts[a].access_token # "")
        => \A g \in 1..MaxGuid : HasPosted(posted_items, 1, a, g)

\* C34: while the feed yields the same items and every publish call is
\* acknowledged, sequential passes reach a state in which every item has its
\* ledger row for every linked credentialed account, and stay in it; from
\* then on no publish call is made and no count of a pass grows, so that a
\* pass that starts there reports posted = 0 and skipped = 0.
C34_Converges ==
    /\ <>[]AllLedgered
    /\ [][AllLedgered =>
             /\ acked' = acked
             /\ posted_items' = posted_items
             /\ Len(run'[0].calls) <= Len(run[0].calls)
             /\ run'[0].posted <= run[0].posted
             /\ run'[0].skipped <= run[0].skipped
             /\ run'[0].errors <= run[0].errors
             /\ Len(run_log') > Len(run_log) /\ run[0].calls = <<>>
                   => /\ run_log'[Len(run_log')].posted = 0
                      /\ run_log'[Len(run_log')].skipped = 0]_vars

\* MaxGuid items for two accounts took two passes; the third pass found
\* nothing to send
C34_Witness ==
    /\ AllLedgered
    /\ Len(run_log) = 3
    /\ run_log[1].posted = 2 * POST_LIMIT
    /\ run_log[1].skipped = 2 * (MaxGuid - POST_LIMIT)
    /\ run_log[2].posted = 2 * (MaxGuid - POST_LIMIT)
    /\ run_log[2].skipped = 0
    /\ run_log[3].posted = 0 /\ run_log[3].skipped = 0 /\ run_log[3].errors = 0
    /\ Len(posted_items) = 2 * MaxGuid

\* C35: an item whose publish call would be acknowledged is published in the
\* end, over repeated passes of a feed that keeps yielding it, for every
\* credentialed account the feed is linked to, even if older items of the
\* pair fail on every pass.
C35_GoodItemEventuallyPublished ==
    \A a \in AccountIds : \A g \in (1..MaxGuid) \ Rejected :
        <>(<<1, a>> \in feed_accounts /\ accounts[a].access_token # ""
              => HasPosted(posted_items, 1, a, g))

\* C36: a step of a pass changes the database only by writing
\* last_fetched_at / last_status of the feed it is fetching, by adding one
\* ledger row, or by adding one run record.  It leaves the accounts, the
\* feed-account links, the feeds' existence and active flags, every ledger
\* row and every run record already there as they are.
C36_PassWritesOnlyItsOwn ==
    [][\A p \in Threads :
          run'[p] # run[p] =>
             /\ accounts' = accounts
             /\ feed_accounts' = feed_accounts
             /\ \A f \in FeedIds :
                   /\ feeds'[f].present = feeds[f].present
                   /\ feeds'[f].active = feeds[f].active
                   /\ feeds'[f] # feeds[f] => run[p].pc = "fetch" /\ run[p].feed = f
             /\ Len(posted_items') \in {Len(posted_items), Len(posted_items) + 1}
             /\ \A i \in DOMAIN posted_items : posted_items'[i] = posted_items[i]
             /\ Len(posted_items') > Len(posted_items) => run[p].pc = "resp"
             /\ Len(run_log') \in {Len(run_log), Len(run_log) + 1}
             /\ \A i \in DOMAIN run_log : run_log'[i] = run_log[i]
             /\ Len(run_log') > Len(run_log) => run[p].pc = "log"]_vars

\* a pass has written all three: feed 1's fetch status, the ledger row of its
\* item, its run record; feed 2's row and the earlier ledger row are untouched
C36_Witness ==
    /\ feeds[1].last_status = "ok" /\ feeds[1].last_fetched_at = 1
    /\ feeds[2].last_fetched_at = 1 /\ ~feeds[2].active
    /\ Len(posted_items) = 2
    /\ posted_items[1] = [feed_id |-> 2, account_id |-> 2, item_guid |-> 1]
    /\ posted_items[2] = [feed_id |-> 1, account_id |-> 1, item_guid |-> 1]
    /\ Len(run_log) = 1 /\ run_log[1].posted = 1
    /\ feed_accounts = {<<1, 1>>, <<2, 2>>}

\* C37: a session is an admin session only through a login POST that carried
\* the session's CSRF token and the configured username and password, and
\* the admin routes (manual run, feed toggle and delete, account disconnect,
\* log clear) act only when some session is an admin by such a login, or
\* was one when the acting request came in and waited for the database.
C37_AdminOnlyByLogin ==
    /\ [](\A s \in Sessions : web.session[s].admin => web.session[s].via = "login")
    /\ [][(admin' # admin \/ web'.manual # web.manual)
             => \E s \in Sessions :
                   \/ Permanent(web.session[s])
                   \/ web.waiting[s] # <<>> /\ Permanent(web.waiting[s][1])]_vars

====
